---- MODULE Spec2Model ----
(***************************************************************************)
(* Model of img-setup: the chroot session of setup_img.py (arch_chroot /   *)
(* de_chroot and the mount helpers), the step orchestrator and the         *)
(* bootloader installer of modules/master.py, and configuration_procedure  *)
(* which strings them together.                                            *)
(*                                                                         *)
(* Paths and device names are sequences of one-character strings, so that  *)
(* the slicing and the character scans of the code are computed as the     *)
(* code computes them.                                                     *)
(***************************************************************************)
EXTENDS Integers, Sequences, FiniteSets, TLC

VARIABLES
    entry,        \* the function the run was started through
    pc,           \* position of the run
    exc,          \* exception that ended the run ("none" while there is none)
    path_dir,     \* the target path as the caller passes it
    arch_dir,     \* arch_chroot's local path_dir, after its normalisation
    real_root,    \* the handle on the real root: "none", "open", "closed"
    root,         \* process root, as a path of the real root
    cwd,          \* working directory, as a path of the real root
    mounted,      \* mount table: set of [at |-> real path, dev |-> device]
    mount_log,    \* mount commands issued so far
    umount_log,   \* umount commands issued so far
    k,            \* index of the next mount / unmount entry
    host_efi,     \* the running kernel exposes /sys/firmware/efi/efivars
    nested_efi,   \* the image holds <path>/sys/firmware/efi/efivars inside itself
    de_calls,     \* number of times de_chroot has been entered
    de_result,    \* what de_chroot returned to its caller ("unset" before that)
    settings,     \* the settings record: field name -> value
    processes_to_do, \* the orchestrator's list of pending action names
    procs,        \* action name -> state of its Process object
    launch_i,     \* index of the next action to launch
    each,         \* index (Python, from 0) the polling loop is at
    joined,       \* the actions joined so far, in join order
    percent,      \* the orchestrator's progress counter, a float
    growth,       \* the orchestrator's increment, a float
    progress,     \* the percentages written to the progress line so far
    report,       \* what the orchestrator hands back: action -> outcome
    helpers,      \* external helper started with Popen -> its state
    img_mounted,  \* the image is mounted on /mnt
    target_fs,    \* files of the target root that the procedure touches
    settings_in,  \* the settings record as configuration_procedure was given it
    bootloader,   \* the bootloader identifier given to install_bootloader
    root_dev,     \* the root device path given to the bootloader stage
    release,      \* the kernel release the bootloader stage is given
    grub_disk,    \* _install_grub's local root after the stripping
    tool_log,     \* the external commands run so far, with their exit status
    boot_dirs,    \* the directories that exist under /boot/efi
    boot_files,   \* file path -> content, for the files the stage writes
    boot_list,    \* listdir("/boot")
    unwritable,   \* the files that cannot be opened for writing
    part_uuid,    \* what blkid prints for the root device, or BLKID_FAILS
    uuid,         \* check_systemd_boot's local uuid
    warned,       \* the warnings issued with warnings.warn
    runs,         \* number of calls of the entry function begun
    run_start,    \* boot_files at the start of the current call
    first_end,    \* boot_files when the first call was over
    copy_log      \* the copyfile calls of check_systemd_boot so far

session_vars == <<path_dir, arch_dir, real_root, root, cwd, mounted,
                  mount_log, umount_log, k, host_efi, nested_efi, de_calls, de_result>>

orch_vars == <<settings, processes_to_do, procs, launch_i, each, joined,
               percent, growth, progress, report, helpers>>

cp_vars == <<img_mounted, target_fs, settings_in>>

boot_vars == <<bootloader, root_dev, release, grub_disk, tool_log, boot_dirs,
               boot_files, boot_list, unwritable, part_uuid, uuid, warned,
               runs, run_start, first_end, copy_log>>

-----------------------------------------------------------------------------
(* Path literals *)

ROOT_DIR == <<"/">>
MNT == <<"/", "m", "n", "t">>
MNT_SLASH == <<"/", "m", "n", "t", "/">>
PROC == <<"/", "p", "r", "o", "c">>
SYS == <<"/", "s", "y", "s">>
EFIVARS == <<"/", "s", "y", "s", "/", "f", "i", "r", "m", "w", "a", "r", "e",
             "/", "e", "f", "i", "/", "e", "f", "i", "v", "a", "r", "s">>
EFI_TAIL == <<"/", "f", "i", "r", "m", "w", "a", "r", "e",
              "/", "e", "f", "i", "/", "e", "f", "i", "v", "a", "r", "s">>
DEV == <<"/", "d", "e", "v">>
DEV_PTS == <<"/", "d", "e", "v", "/", "p", "t", "s">>
DEV_SHM == <<"/", "d", "e", "v", "/", "s", "h", "m">>
RUN == <<"/", "r", "u", "n">>
TMP == <<"/", "t", "m", "p">>

\* The target paths a caller passes to arch_chroot / de_chroot.
TargetPaths == {MNT, MNT_SLASH}

-----------------------------------------------------------------------------
(* Python and kernel helpers *)

Min(a, b) == IF a < b THEN a ELSE b
Max(a, b) == IF a > b THEN a ELSE b

\* s[0:hi] of Python: a negative hi counts from the end, out-of-range is clipped
PySliceTo(s, hi) ==
    LET h == IF hi < 0 THEN Max(Len(s) + hi, 0) ELSE Min(hi, Len(s))
    IN  SubSeq(s, 1, h)

\* Kernel path canonicalisation: runs of "/" collapse, a trailing "/" is dropped
RECURSIVE Squeeze(_)
Squeeze(p) ==
    IF Len(p) < 2 THEN p
    ELSE IF p[1] = "/" /\ p[2] = "/" THEN Squeeze(Tail(p))
    ELSE <<p[1]>> \o Squeeze(Tail(p))

Canon(p) ==
    LET q == Squeeze(p)
    IN  IF Len(q) > 1 /\ q[Len(q)] = "/" THEN SubSeq(q, 1, Len(q) - 1) ELSE q

\* An absolute path p named by a process whose root is r, as a path of the real root
Resolve(r, p) == IF r = ROOT_DIR THEN Canon(p) ELSE Canon(r \o p)

IsPrefix(p, q) == Len(p) <= Len(q) /\ SubSeq(q, 1, Len(p)) = p

\* Directories of the real root that exist: the mounted image and the
\* mount points inside it.
PseudoDirs == {PROC, SYS, DEV, DEV_PTS, DEV_SHM, RUN, TMP}
IsDir(real) == real \in ({ROOT_DIR, MNT} \cup {MNT \o s : s \in PseudoDirs})

\* os.path.exists of the efivars directory, for a process whose root is r
PathExistsEfivars(r, p, mtab) ==
    LET real == Resolve(r, p)
    IN  \/ host_efi /\ \E m \in mtab : m.dev = "sys" /\ real = m.at \o EFI_TAIL
        \/ nested_efi /\ \E t \in TargetPaths : real = Canon(MNT \o t \o EFIVARS)

-----------------------------------------------------------------------------
(* The mount and umount tools *)

\* mount <device> <path>: exit status 0 iff the tool works (ok) and the mount
\* point exists
MountSucceeds(real, ok, mtab) ==
    ok /\ (IsDir(real) \/ \E m \in mtab : m.dev = "sys" /\ real = m.at \o EFI_TAIL)

\* umount <path>: fails when the path is no mount point or is busy (another
\* mount sits below it)
UmountSucceeds(real, mtab) ==
    /\ \E m \in mtab : m.at = real
    /\ ~ \E m \in mtab : m.at # real /\ IsPrefix(real \o <<"/">>, m.at)

\* umount -l <path>: fails when the path is no mount point; detaches the
\* mount and everything mounted below it
LazySucceeds(real, mtab) == \E m \in mtab : m.at = real

Detach(real, mtab) ==
    {m \in mtab : ~ (m.at = real \/ IsPrefix(real \o <<"/">>, m.at))}

-----------------------------------------------------------------------------
(* setup_img.py: the chroot session *)

\* MountEntries with the device nodes mounted before sysfs
MountEntries_DevFirst == <<
    [dev |-> "proc",    at |-> PROC,    fstype |-> "proc",     cond |-> FALSE],
    [dev |-> "udev",    at |-> DEV,     fstype |-> "devtmpfs", cond |-> FALSE],
    [dev |-> "sys",     at |-> SYS,     fstype |-> "sysfs",    cond |-> FALSE],
    [dev |-> "efivars", at |-> EFIVARS, fstype |-> "efivarfs", cond |-> TRUE],
    [dev |-> "devpts",  at |-> DEV_PTS, fstype |-> "devpts",   cond |-> FALSE],
    [dev |-> "shm",     at |-> DEV_SHM, fstype |-> "tmpfs",    cond |-> FALSE],
    [dev |-> "/run",    at |-> RUN,     fstype |-> "bind",     cond |-> FALSE],
    [dev |-> "tmp",     at |-> TMP,     fstype |-> "tmpfs",    cond |-> FALSE] >>

\* arch_chroot's mount calls in program order; cond marks the one guarded by
\* path.exists
MountEntries == <<
    [dev |-> "proc",    at |-> PROC,    fstype |-> "proc",     cond |-> FALSE],
    [dev |-> "sys",     at |-> SYS,     fstype |-> "sysfs",    cond |-> FALSE],
    [dev |-> "efivars", at |-> EFIVARS, fstype |-> "efivarfs", cond |-> TRUE],
    [dev |-> "udev",    at |-> DEV,     fstype |-> "devtmpfs", cond |-> FALSE],
    [dev |-> "devpts",  at |-> DEV_PTS, fstype |-> "devpts",   cond |-> FALSE],
    [dev |-> "shm",     at |-> DEV_SHM, fstype |-> "tmpfs",    cond |-> FALSE],
    [dev |-> "/run",    at |-> RUN,     fstype |-> "bind",     cond |-> FALSE],
    [dev |-> "tmp",     at |-> TMP,     fstype |-> "tmpfs",    cond |-> FALSE] >>

\* de_chroot's unmount calls in program order
UnmountEntries == <<
    [at |-> PROC,    cond |-> FALSE],
    [at |-> SYS,     cond |-> FALSE],
    [at |-> EFIVARS, cond |-> TRUE],
    [at |-> DEV,     cond |-> FALSE],
    [at |-> DEV_PTS, cond |-> FALSE],
    [at |-> DEV_SHM, cond |-> FALSE],
    [at |-> RUN,     cond |-> FALSE],
    [at |-> TMP,     cond |-> FALSE] >>

\* arch_chroot lines 97-98: a trailing "/" is cut by slicing
NormalisePathDir(p) ==
    IF p[Len(p)] = "/" THEN PySliceTo(p, Len(p) - 2) ELSE p

\* What the code does once arch_chroot has returned / raised, and once
\* de_chroot has returned, depends on who called them.
AfterArchChroot == IF entry = "configuration_procedure" THEN "update_19" ELSE "work"
AfterDeChroot == IF entry = "configuration_procedure" THEN "cleanup" ELSE "done"

\* arch_chroot line 96 - 98: open the real root, normalise the path
ArchOpen ==
    /\ pc = "arch_chroot"
    /\ real_root' = "open"
    /\ arch_dir' = NormalisePathDir(path_dir)
    /\ k' = 1
    /\ pc' = "arch_mount"
    /\ UNCHANGED <<entry, exc, path_dir, root, cwd, mounted, mount_log,
                   umount_log, host_efi, nested_efi, de_calls, de_result>>
    /\ UNCHANGED <<orch_vars, cp_vars, boot_vars>>

\* __chroot_mount__: one mount command; a non-zero exit is swallowed
ChrootMount(e, ok) ==
    LET p    == arch_dir \o e.at
        real == Resolve(root, p)
        good == MountSucceeds(real, ok, mounted)
    IN  /\ mount_log' = Append(mount_log,
                               [dev |-> e.dev, path |-> p, real |-> real, ok |-> good])
        /\ mounted' = IF good THEN mounted \cup {[at |-> real, dev |-> e.dev]}
                      ELSE mounted

\* arch_chroot lines 99 - 112: the next mount call
ArchMount ==
    /\ pc = "arch_mount"
    /\ k <= Len(MountEntries)
    /\ LET e == MountEntries[k]
       IN  IF e.cond /\ ~ PathExistsEfivars(root, arch_dir \o e.at, mounted)
           THEN UNCHANGED <<mount_log, mounted>>
           ELSE \E ok \in BOOLEAN : ChrootMount(e, ok)
    /\ k' = k + 1
    /\ pc' = IF k = Len(MountEntries) THEN "arch_chdir" ELSE "arch_mount"
    /\ UNCHANGED <<entry, exc, path_dir, arch_dir, real_root, root, cwd,
                   umount_log, host_efi, nested_efi, de_calls, de_result>>
    /\ UNCHANGED <<orch_vars, cp_vars, boot_vars>>

\* arch_chroot line 113: chdir(path_dir); raises when the directory is missing
ArchChdir ==
    /\ pc = "arch_chdir"
    /\ IF IsDir(Resolve(root, arch_dir))
       THEN /\ cwd' = Resolve(root, arch_dir)
            /\ pc' = "arch_switch"
            /\ exc' = exc
       ELSE /\ cwd' = cwd
            /\ pc' = "raised"
            /\ exc' = "FileNotFoundError"
    /\ UNCHANGED <<entry, path_dir, arch_dir, real_root, root, mounted,
                   mount_log, umount_log, k, host_efi, nested_efi, de_calls, de_result>>
    /\ UNCHANGED <<orch_vars, cp_vars, boot_vars>>

\* arch_chroot lines 114 - 115: chroot(path_dir); return real_root
ArchSwitch ==
    /\ pc = "arch_switch"
    /\ root' = Resolve(root, arch_dir)
    /\ pc' = AfterArchChroot
    /\ UNCHANGED <<entry, exc, path_dir, arch_dir, real_root, cwd, mounted,
                   mount_log, umount_log, k, host_efi, nested_efi, de_calls, de_result>>
    /\ UNCHANGED <<orch_vars, cp_vars, boot_vars>>

\* A caller of the session that does its work and returns normally
SessionWork ==
    /\ pc = "work"
    /\ pc' = "de_chroot"
    /\ UNCHANGED <<entry, exc>>
    /\ UNCHANGED session_vars
    /\ UNCHANGED <<orch_vars, cp_vars, boot_vars>>

\* de_chroot is entered
DeChrootEnter ==
    /\ pc = "de_chroot"
    /\ de_calls' = de_calls + 1
    /\ k' = 1
    /\ pc' = "de_unmount"
    /\ UNCHANGED <<entry, exc, path_dir, arch_dir, real_root, root, cwd,
                   mounted, mount_log, umount_log, host_efi, nested_efi,
                   de_result>>
    /\ UNCHANGED <<orch_vars, cp_vars, boot_vars>>

\* Unmount that makes the lazy attempt whatever the first attempt gave
Unmount_AlwaysLazy(p) ==
    LET real == Resolve(root, p)
        first == [path |-> p, real |-> real, lazy |-> FALSE,
                  ok |-> UmountSucceeds(real, mounted)]
        after == IF first.ok THEN {m \in mounted : m.at # real} ELSE mounted
        second == [path |-> p, real |-> real, lazy |-> TRUE,
                   ok |-> LazySucceeds(real, after)]
    IN  /\ umount_log' = umount_log \o <<first, second>>
        /\ mounted' = IF second.ok THEN Detach(real, after) ELSE after

\* __unmount__: umount, then umount -l if that exits non-zero; a second
\* non-zero exit is swallowed
Unmount(p) ==
    LET real == Resolve(root, p)
        first == [path |-> p, real |-> real, lazy |-> FALSE,
                  ok |-> UmountSucceeds(real, mounted)]
        second == [path |-> p, real |-> real, lazy |-> TRUE,
                   ok |-> LazySucceeds(real, mounted)]
    IN  IF first.ok
        THEN /\ umount_log' = Append(umount_log, first)
             /\ mounted' = {m \in mounted : m.at # real}
        ELSE /\ umount_log' = umount_log \o <<first, second>>
             /\ mounted' = IF second.ok THEN Detach(real, mounted) ELSE mounted

\* __unmount__(path_dir) called by itself
UnmountCall ==
    /\ pc = "__unmount__"
    /\ Unmount(path_dir)
    /\ pc' = "done"
    /\ UNCHANGED <<entry, exc, path_dir, arch_dir, real_root, root, cwd,
                   mount_log, k, host_efi, nested_efi, de_calls, de_result>>
    /\ UNCHANGED <<orch_vars, cp_vars, boot_vars>>

\* de_chroot lines 119 - 127: the next unmount call
DeUnmount ==
    /\ pc = "de_unmount"
    /\ k <= Len(UnmountEntries)
    /\ LET e == UnmountEntries[k]
       IN  IF e.cond /\ ~ PathExistsEfivars(root, path_dir \o e.at, mounted)
           THEN UNCHANGED <<umount_log, mounted>>
           ELSE Unmount(path_dir \o e.at)
    /\ k' = k + 1
    /\ pc' = IF k = Len(UnmountEntries) THEN "de_fchdir" ELSE "de_unmount"
    /\ UNCHANGED <<entry, exc, path_dir, arch_dir, real_root, root, cwd,
                   mount_log, host_efi, nested_efi, de_calls, de_result>>
    /\ UNCHANGED <<orch_vars, cp_vars, boot_vars>>

\* DeFchdir that goes back by the path "/" instead of the handle
DeFchdir_ByPath ==
    /\ pc = "de_fchdir"
    /\ real_root = "open"
    /\ cwd' = Resolve(root, ROOT_DIR)
    /\ pc' = "de_switch"
    /\ UNCHANGED <<entry, exc, path_dir, arch_dir, real_root, root, mounted,
                   mount_log, umount_log, k, host_efi, nested_efi, de_calls, de_result>>
    /\ UNCHANGED <<orch_vars, cp_vars, boot_vars>>

\* de_chroot line 128: fchdir(real_root)
DeFchdir ==
    /\ pc = "de_fchdir"
    /\ real_root = "open"
    /\ cwd' = ROOT_DIR
    /\ pc' = "de_switch"
    /\ UNCHANGED <<entry, exc, path_dir, arch_dir, real_root, root, mounted,
                   mount_log, umount_log, k, host_efi, nested_efi, de_calls, de_result>>
    /\ UNCHANGED <<orch_vars, cp_vars, boot_vars>>

\* de_chroot line 129: chroot(".")
DeSwitch ==
    /\ pc = "de_switch"
    /\ root' = cwd
    /\ pc' = "de_close"
    /\ UNCHANGED <<entry, exc, path_dir, arch_dir, real_root, cwd, mounted,
                   mount_log, umount_log, k, host_efi, nested_efi, de_calls, de_result>>
    /\ UNCHANGED <<orch_vars, cp_vars, boot_vars>>

\* de_chroot line 130: close(real_root); the function ends without a return
\* statement, so its caller receives None
DeClose ==
    /\ pc = "de_close"
    /\ real_root' = "closed"
    /\ de_result' = "None"
    /\ pc' = AfterDeChroot
    /\ UNCHANGED <<entry, exc, path_dir, arch_dir, root, cwd, mounted,
                   mount_log, umount_log, k, host_efi, nested_efi, de_calls>>
    /\ UNCHANGED <<orch_vars, cp_vars, boot_vars>>

-----------------------------------------------------------------------------
(* Settings values.  A Python string is the sequence of its characters;    *)
(* None, True and False are one-element sequences holding a word, a shape  *)
(* no string has.                                                          *)

NoneVal == <<"None">>
TrueVal == <<"True">>
FalseVal == <<"False">>
EMPTY == <<>>

NO_KEYBOARD == <<"D", "o", " ", "n", "o", "t", " ", "c", "o", "n", "f", "i",
                 "g", "u", "r", "e", " ", "k", "e", "y", "b", "o", "a", "r",
                 "d", ";", " ", "k", "e", "e", "p", " ", "k", "e", "r", "n",
                 "e", "l", " ", "k", "e", "y", "m", "a", "p">>
ENGLISH_US == <<"E", "n", "g", "l", "i", "s", "h", " ", "(", "U", "S", ")">>
DEFAULT_HOSTNAME == <<"d", "r", "a", "u", "g", "e", "r", "-", "s", "y", "s",
                      "t", "e", "m", "-", "i", "n", "s", "t", "a", "l", "l",
                      "e", "d">>
STR_bob == <<"b", "o", "b">>
STR_pw == <<"p", "w">>
STR_pc == <<"p", "c">>
STR_C == <<"C">>
STR_US_Central == <<"U", "S", "/", "C", "e", "n", "t", "r", "a", "l">>
STR_grub == <<"g", "r", "u", "b", "-", "p", "c">>
TZ_FILE == <<"U", "T", "C", "\n">>
ENOENT == <<"ENOENT">>

\* dict assignment settings[f] = v
Put(s, f, v) == [x \in DOMAIN s \cup {f} |-> IF x = f THEN v ELSE s[x]]

\* the record without field f
Without(s, f) == [x \in DOMAIN s \ {f} |-> s[x]]

-----------------------------------------------------------------------------
(* modules/master.py: the step orchestrator *)

\* The public methods of MainInstallation with their parameter names
\* (getfullargspec), lines 74 - 171
ActionArgs ==
    [ apt             |-> <<"UPDATES", "INTERNET">>,
      lightdm_config  |-> <<"LOGIN", "USERNAME">>,
      locale_set      |-> <<"LANG">>,
      make_user       |-> <<"USERNAME", "PASSWORD">>,
      remove_launcher |-> <<"USERNAME">>,
      set_keyboard    |-> <<"MODEL", "LAYOUT", "VARIENT">>,
      set_networking  |-> <<"COMPUTER_NAME">>,
      set_passwd      |-> <<"PASSWORD">>,
      time_set        |-> <<"TIME_ZONE">> ]

Actions == DOMAIN ActionArgs

\* install lines 399 - 402: dir(MainInstallation), which is sorted, without
\* the names that start with "_"
InstallList == <<"apt", "lightdm_config", "locale_set", "make_user",
                 "remove_launcher", "set_keyboard", "set_networking",
                 "set_passwd", "time_set">>

\* The names bound at module level in master.py; line 62 adds the name of
\* every launched action.
MasterGlobals(launched) ==
    {"eprint", "__update__", "MainInstallation", "set_plymouth_theme",
     "_install_bootloader_package", "install_bootloader", "_install_grub",
     "_install_systemd_boot", "setup_lowlevel", "check_systemd_boot",
     "make_num", "install"} \cup launched

\* The name of the module's progress function, which is not changed by the
\* compiler
UpdateCallName_Dunder == "__update__"

\* The name line 71 looks up: __update, written inside class
\* MainInstallation, is compiled to its private-name form.
UpdateCallName == "_MainInstallation__update"

Launched == {a \in Actions : procs[a] # "unstarted"}

\* del processes_to_do[each]
DelAt(list, idx) == SubSeq(list, 1, idx) \o SubSeq(list, idx + 2, Len(list))

\* Numbers of the progress line.  A number is <<bits, e>>: the binary digits
\* bits, most significant first, times 2^e, kept with no leading and no
\* trailing zero digit.  A Python int is exact; a Python float has at most
\* MantissaBits digits.
MantissaBits == 53

RECURSIVE Bits(_)
Bits(n) == IF n = 0 THEN <<>> ELSE Bits(n \div 2) \o <<n % 2>>

Zeros(n) == [i \in 1..n |-> 0]

RECURSIVE StripLeading(_)
StripLeading(b) == IF b = <<>> \/ b[1] = 1 THEN b ELSE StripLeading(Tail(b))

RECURSIVE Normal(_, _)
Normal(b, e) ==
    IF b = <<>> THEN <<b, 0>>
    ELSE IF b[1] = 0 THEN Normal(Tail(b), e)
    ELSE IF b[Len(b)] = 0 THEN Normal(SubSeq(b, 1, Len(b) - 1), e + 1)
    ELSE <<b, e>>

\* The carry into digit i when a, b (digit sequences of one length) and carry
\* are added: some digit to the right produces a carry and every digit
\* between passes it on
CarryInto(a, b, carry, i) ==
    \/ \E j \in (i + 1)..Len(a) :
          /\ a[j] + b[j] = 2
          /\ \A m \in (i + 1)..(j - 1) : a[m] + b[m] = 1
    \/ carry = 1 /\ \A m \in (i + 1)..Len(a) : a[m] + b[m] = 1

\* a + b + carry for digit sequences of one length; one digit longer
AddBits(a, b, carry) ==
    [i \in 1..(Len(a) + 1) |->
        IF i = 1 THEN (IF CarryInto(a, b, carry, 0) THEN 1 ELSE 0)
        ELSE (a[i - 1] + b[i - 1]
                + (IF CarryInto(a, b, carry, i - 1) THEN 1 ELSE 0)) % 2]

\* Round to nearest, ties to even, as IEEE 754 double arithmetic does:
\* digits is the exact result times 2^-e, sticky tells that more non-zero
\* digits follow it.  With sticky, digits holds more significant digits than
\* the mantissa does (GuardBits sees to that).
RoundDouble(digits, e, sticky) ==
    LET b == StripLeading(digits)
    IN  IF Len(b) <= MantissaBits THEN Normal(b, e)
        ELSE LET keep == SubSeq(b, 1, MantissaBits)
                 rest == SubSeq(b, MantissaBits + 1, Len(b))
                 more == sticky \/ \E i \in 2..Len(rest) : rest[i] = 1
                 up   == rest[1] = 1 /\ (more \/ keep[MantissaBits] = 1)
             IN  Normal(IF up THEN AddBits(keep, Zeros(MantissaBits), 1) ELSE keep,
                        e + Len(rest))

\* The next n digits of r / d after the binary point (r < d, n a multiple
\* of four) put after the digits got so far, and what is left of r; four
\* digits are taken at a time
RECURSIVE FractionBits(_, _, _, _)
FractionBits(r, d, n, got) ==
    IF n = 0 THEN [bits |-> got, rem |-> r]
    ELSE LET q == (16 * r) \div d
         IN  FractionBits((16 * r) % d, d, n - 4,
                          got \o <<q \div 8, (q \div 4) % 2, (q \div 2) % 2, q % 2>>)

\* The digits to take after the binary point of a quotient by d: the first
\* non-zero digit of 1 / d is among the first Len(Bits(d)), the mantissa and
\* the rounding digit follow it; made a multiple of four
GuardBits(d) == 4 * ((Len(Bits(d)) + MantissaBits + 4) \div 4)

\* n / d of Python for ints n >= 0, d > 0: the nearest double
TrueDiv(n, d) ==
    LET f == FractionBits(n % d, d, GuardBits(d), Bits(n \div d))
    IN  RoundDouble(f.bits, 0 - GuardBits(d), f.rem # 0)

\* The digits of a and of b brought to one exponent and one length
Aligned(a, b) ==
    LET e  == Min(a[2], b[2])
        da == a[1] \o Zeros(a[2] - e)
        db == b[1] \o Zeros(b[2] - e)
        n  == Max(Len(da), Len(db))
    IN  [a |-> Zeros(n - Len(da)) \o da, b |-> Zeros(n - Len(db)) \o db, e |-> e]

\* line 72: percent + growth, a float addition
AddPercent(a, b) ==
    LET al == Aligned(a, b)
    IN  RoundDouble(AddBits(al.a, al.b, 0), al.e, FALSE)

\* Where control goes when MainInstallation(...) returns
AfterOrchestrator == IF entry = "MainInstallation" THEN "done" ELSE "setup_lowlevel"

\* lines 56 - 63: launch the next action; a field the record lacks raises
\* KeyError out of the constructor
OrchLaunch ==
    /\ pc = "orch_launch"
    /\ launch_i <= Len(processes_to_do)
    /\ LET a    == processes_to_do[launch_i]
           args == ActionArgs[a]
       IN  IF \E j \in 1..Len(args) : args[j] \notin DOMAIN settings
           THEN /\ exc' = "KeyError"
                /\ pc' = "raised"
                /\ UNCHANGED <<procs, launch_i>>
           ELSE /\ procs' = [procs EXCEPT ![a] = "alive"]
                /\ launch_i' = launch_i + 1
                /\ UNCHANGED <<exc, pc>>
    /\ UNCHANGED <<entry, settings, processes_to_do, each, joined, percent,
                   growth, progress, report, helpers>>
    /\ UNCHANGED <<session_vars, cp_vars, boot_vars>>

\* lines 64 - 65: percent and growth
OrchPercent ==
    /\ pc = "orch_launch"
    /\ launch_i > Len(processes_to_do)
    /\ IF Len(processes_to_do) = 0
       THEN /\ exc' = "ZeroDivisionError"
            /\ pc' = "raised"
            /\ UNCHANGED <<percent, growth>>
       ELSE /\ percent' = TrueDiv(50, Len(processes_to_do))
            /\ growth' = TrueDiv(50, Len(processes_to_do))
            /\ pc' = "orch_while"
            /\ exc' = exc
    /\ UNCHANGED <<entry, settings, processes_to_do, procs, launch_i, each,
                   joined, progress, report, helpers>>
    /\ UNCHANGED <<session_vars, cp_vars, boot_vars>>

\* line 66 - 67: the while test and the start of a sweep from the last index
OrchWhile ==
    /\ pc = "orch_while"
    /\ IF Len(processes_to_do) > 0
       THEN /\ each' = Len(processes_to_do) - 1
            /\ pc' = "orch_poll"
       ELSE /\ each' = each
            /\ pc' = AfterOrchestrator
    /\ UNCHANGED <<entry, exc, settings, processes_to_do, procs, launch_i,
                   joined, percent, growth, progress, report, helpers>>
    /\ UNCHANGED <<session_vars, cp_vars, boot_vars>>

\* The actions that start an external helper with Popen and return without
\* waiting for it: make_user (lines 98 - 105) and set_keyboard (lines 160 -
\* 161).  set_passwd waits in communicate(), apt in check_call.
HelperOf == [make_user |-> "/make_user.sh", set_keyboard |-> "udevadm trigger"]

\* set_plymouth_theme starts one more the same way (lines 175 - 182)
PLYMOUTH_INSTALL == "update-alternatives --install"

Helpers == {HelperOf[a] : a \in DOMAIN HelperOf} \cup {PLYMOUTH_INSTALL}

\* What is_alive() can find for action a.  The Popen of its helper is the
\* last thing make_user and set_keyboard do: such an action has returned
\* (exit status 0) only with the helper started, and has raised (exit status
\* 1) only without.
CanFind(a, st) ==
    IF st = "alive" \/ a \notin DOMAIN HelperOf THEN TRUE
    ELSE (st = "exit0") = (helpers[HelperOf[a]] # "unstarted")

\* line 68: is_alive() of the action at index each.  The call reaps the
\* child: it finds it still running, or exited with status 0, or exited
\* with status 1 (the action raised).
OrchPoll ==
    /\ pc = "orch_poll"
    /\ IF each < 0
       THEN /\ pc' = "orch_while"
            /\ UNCHANGED <<each, procs>>
       ELSE \E st \in {"alive", "exit0", "exit1"} :
            /\ CanFind(processes_to_do[each + 1], st)
            /\ procs' = [procs EXCEPT ![processes_to_do[each + 1]] = st]
            /\ IF st = "alive"
               THEN each' = each - 1 /\ pc' = pc
               ELSE each' = each /\ pc' = "orch_join"
    /\ UNCHANGED <<entry, exc, settings, processes_to_do, launch_i, joined,
                   percent, growth, progress, report, helpers>>
    /\ UNCHANGED <<session_vars, cp_vars, boot_vars>>

\* lines 102 and 160: the process of a launched action gets to the Popen of
\* its helper, whatever the orchestrator does meanwhile
HelperStart ==
    /\ \E a \in DOMAIN HelperOf :
          /\ procs[a] = "alive"
          /\ helpers[HelperOf[a]] = "unstarted"
          /\ helpers' = [helpers EXCEPT ![HelperOf[a]] = "running"]
    /\ UNCHANGED <<entry, pc, exc, settings, processes_to_do, procs, launch_i,
                   each, joined, percent, growth, progress, report>>
    /\ UNCHANGED <<session_vars, cp_vars, boot_vars>>

\* A helper that is running comes to its end, whatever the program does
HelperExit ==
    /\ \E h \in Helpers :
          /\ helpers[h] = "running"
          /\ helpers' = [helpers EXCEPT ![h] = "finished"]
    /\ UNCHANGED <<entry, pc, exc, settings, processes_to_do, procs, launch_i,
                   each, joined, percent, growth, progress, report>>
    /\ UNCHANGED <<session_vars, cp_vars, boot_vars>>

\* lines 69 - 72: join, del, then the call of line 71, which raises
\* NameError unless the name it looks up is bound
OrchJoin ==
    /\ pc = "orch_join"
    /\ joined' = Append(joined, processes_to_do[each + 1])
    /\ processes_to_do' = DelAt(processes_to_do, each)
    /\ IF UpdateCallName \in MasterGlobals(Launched)
       THEN /\ progress' = Append(progress, percent)
            /\ percent' = AddPercent(percent, growth)
            /\ each' = each - 1
            /\ pc' = "orch_poll"
            /\ exc' = exc
       ELSE /\ exc' = "NameError"
            /\ pc' = "raised"
            /\ UNCHANGED <<progress, percent, each>>
    /\ UNCHANGED <<entry, settings, procs, launch_i, growth, report, helpers>>
    /\ UNCHANGED <<session_vars, cp_vars, boot_vars>>

\* The parameters of setup_lowlevel (line 284) and the arguments line 404
\* passes to it
SetupLowlevelParams == <<"efi", "root">>
SetupLowlevelArgs == <<"EFI", "ROOT", "bootloader package">>

\* install line 404: the arguments are looked up from left to right, a
\* missing one raises KeyError; then the call is made, and a call with more
\* positional arguments than parameters raises TypeError
SetupLowlevelCall(s) ==
    IF \E j \in 1..Len(SetupLowlevelArgs) : SetupLowlevelArgs[j] \notin DOMAIN s
    THEN "KeyError"
    ELSE IF Len(SetupLowlevelArgs) # Len(SetupLowlevelParams) THEN "TypeError"
    ELSE "called"

\* install line 404
InstallSetupLowlevel ==
    /\ pc = "setup_lowlevel"
    /\ SetupLowlevelCall(settings) # "called"
    /\ exc' = SetupLowlevelCall(settings)
    /\ pc' = "raised"
    /\ UNCHANGED <<entry, settings, processes_to_do, procs, launch_i, each,
                   joined, percent, growth, progress, report, helpers>>
    /\ UNCHANGED <<session_vars, cp_vars, boot_vars>>

\* install lines 399 - 403: build the action list and construct the orchestrator
Install ==
    /\ pc = "install"
    /\ processes_to_do' = InstallList
    /\ launch_i' = 1
    /\ pc' = "orch_launch"
    /\ UNCHANGED <<entry, exc, settings, procs, each, joined, percent,
                   growth, progress, report, helpers>>
    /\ UNCHANGED <<session_vars, cp_vars, boot_vars>>

-----------------------------------------------------------------------------
(* setup_img.py: configuration_procedure *)

Contains(sub, s) ==
    \E n \in 1..(Len(s) - Len(sub) + 1) : SubSeq(s, n, n + Len(sub) - 1) = sub

F_master == <<"m", "a", "s", "t", "e", "r", ".", "p", "y">>
F_set_time == <<"s", "e", "t", "_", "t", "i", "m", "e", ".", "p", "y">>
F_set_locale == <<"s", "e", "t", "_", "l", "o", "c", "a", "l", "e", ".", "p", "y">>
F_pycache == <<"_", "_", "p", "y", "c", "a", "c", "h", "e", "_", "_">>
F_make_user == <<"m", "a", "k", "e", "_", "u", "s", "e", "r", ".", "s", "h">>
F_install_updates == <<"i", "n", "s", "t", "a", "l", "l", "_", "u", "p", "d",
                       "a", "t", "e", "s", ".", "s", "h">>

\* listdir(getcwd() + "/modules")
file_list == {F_master, F_set_time, F_set_locale, F_pycache, F_make_user,
              F_install_updates}

\* lines 421 - 424: the entries that are copied into the target
Staged == {f \in file_list : ~ (f = F_pycache \/ Contains(<<".", "p", "y">>, f))}

\* The int n handed to __update__
Pct(n) == Normal(Bits(n), 0)

\* lines 416 - 418: __update__(2), __mount__(location), __update__(6); a
\* failing mount is reported and swallowed
CpMount ==
    /\ pc = "configuration_procedure"
    /\ \E ok \in BOOLEAN :
          /\ img_mounted' = ok
          /\ mounted' = IF ok THEN mounted \cup {[at |-> MNT, dev |-> "location"]}
                        ELSE mounted
    /\ progress' = progress \o <<Pct(2), Pct(6)>>
    /\ pc' = "stage"
    /\ UNCHANGED <<entry, exc, settings, processes_to_do, procs, launch_i,
                   each, joined, percent, growth, report, helpers,
                   target_fs, settings_in>>
    /\ UNCHANGED <<path_dir, arch_dir, real_root, root, cwd, mount_log,
                   umount_log, k, host_efi, nested_efi, de_calls, de_result>>
    /\ UNCHANGED boot_vars

\* lines 419 - 428: stage the helper files, save the image's resolv.conf and
\* put the host's in its place.  Without the image on /mnt there is no
\* /mnt/etc/resolv.conf and move raises.
CpStage ==
    /\ pc = "stage"
    /\ IF img_mounted
       THEN /\ target_fs' = [staged |-> Staged, resolv |-> "host", save |-> "image"]
            /\ progress' = progress \o <<Pct(7), Pct(8)>>
            /\ pc' = "defaults"
            /\ exc' = exc
       ELSE /\ target_fs' = target_fs
            /\ progress' = Append(progress, Pct(7))
            /\ pc' = "raised"
            /\ exc' = "FileNotFoundError"
    /\ UNCHANGED <<entry, settings, processes_to_do, procs, launch_i, each,
                   joined, percent, growth, report, helpers, img_mounted,
                   settings_in>>
    /\ UNCHANGED <<session_vars, boot_vars>>

\* the test of lines 430, 439, ...: the key is missing (KeyError branch) or
\* the value is "" or None
Unset(s, f) == f \notin DOMAIN s \/ s[f] \in {EMPTY, NoneVal}

\* Default that assigns whatever the field holds
Default_Always(s, f, v) == Put(s, f, v)

\* the pattern of lines 429 - 484: assign v when the field is unset
Default(s, f, v) == IF Unset(s, f) THEN Put(s, f, v) ELSE s

\* lines 492 - 505: layout and variant.  A missing key takes the default
\* whatever the model; an empty value only when the model is configured.
KeyboardDefault(s, f) ==
    IF f \notin DOMAIN s THEN Put(s, f, ENGLISH_US)
    ELSE IF s[f] \in {EMPTY, NoneVal} /\ s["MODEL"] # NO_KEYBOARD
         THEN Put(s, f, ENGLISH_US)
         ELSE s

\* lines 429 - 505, given what the environment supplies: $LANG, the content
\* of /etc/timezone, and the answers to the user name and password prompts
DefaultingPass(s, env_lang, tz, user, passwd) ==
    LET s1 == Default(s, "LANG", env_lang)
        s2 == Default(s1, "TIME_ZONE", PySliceTo(tz, -1))
        s3 == Default(s2, "USERNAME", user)
        s4 == Default(s3, "COMPUTER_NAME", DEFAULT_HOSTNAME)
        s5 == Default(s4, "PASSWORD", passwd)
        s6 == Default(s5, "UPDATES", FalseVal)
        s7 == Default(s6, "MODEL", NO_KEYBOARD)
        s8 == KeyboardDefault(s7, "LAYOUT")
    IN  KeyboardDefault(s8, "VARIENT")

\* Where control goes after line 506: on into configuration_procedure, or
\* nowhere when the pass is run on its own
AfterDefaults == IF entry = "configuration_procedure" THEN "chdir_mnt" ELSE "done"

\* lines 429 - 506: the defaulting pass and __update__(14).  The environment
\* supplies $LANG (getenv gives None when it is not set), /etc/timezone
\* (open() raises when it is missing) and the answers to the prompts of
\* get_username and get_passwd (which accept an empty answer).
CpDefaults ==
    /\ pc = "defaults"
    /\ \E env_lang \in {STR_C, NoneVal}, tz \in {TZ_FILE, ENOENT},
          user \in {STR_bob, EMPTY}, passwd \in {STR_pw, EMPTY} :
          IF Unset(Default(settings, "LANG", env_lang), "TIME_ZONE") /\ tz = ENOENT
          THEN /\ settings' = Default(settings, "LANG", env_lang)
               /\ exc' = "FileNotFoundError"
               /\ pc' = "raised"
               /\ progress' = progress
          ELSE /\ settings' = DefaultingPass(settings, env_lang, tz, user, passwd)
               /\ exc' = exc
               /\ pc' = AfterDefaults
               /\ progress' = Append(progress, Pct(14))
    /\ UNCHANGED <<entry, processes_to_do, procs, launch_i, each, joined,
                   percent, growth, report, helpers>>
    /\ UNCHANGED <<session_vars, cp_vars, boot_vars>>

\* lines 512 - 520: remove every name of file_list from the target (a missing
\* one is skipped), remove resolv.conf, move the saved copy back, unmount
\* the image.  Both resolv.conf and its saved copy are there, since line 512
\* is only reached past lines 426 - 427.
CpCleanup ==
    /\ pc = "cleanup"
    /\ target_fs' = [staged |-> target_fs.staged \ file_list,
                     resolv |-> target_fs.save, save |-> "absent"]
    /\ Unmount(MNT)
    /\ img_mounted' = \E m \in mounted' : m.at = MNT
    /\ pc' = "done"
    /\ UNCHANGED <<entry, exc, path_dir, arch_dir, real_root, root, cwd,
                   mount_log, k, host_efi, nested_efi, de_calls, de_result>>
    /\ UNCHANGED <<orch_vars, settings_in, boot_vars>>

\* CpChdir that goes on to line 509 without calling arch_chroot
CpChdir_NoChroot ==
    /\ pc = "chdir_mnt"
    /\ cwd' = MNT
    /\ path_dir' = MNT
    /\ pc' = "update_19"
    /\ UNCHANGED <<entry, exc, arch_dir, real_root, root, mounted, mount_log,
                   umount_log, k, host_efi, nested_efi, de_calls, de_result>>
    /\ UNCHANGED <<orch_vars, cp_vars, boot_vars>>

\* line 507 and the call of line 508: chdir("/mnt"); arch_chroot("/mnt")
CpChdir ==
    /\ pc = "chdir_mnt"
    /\ cwd' = MNT
    /\ path_dir' = MNT
    /\ pc' = "arch_chroot"
    /\ UNCHANGED <<entry, exc, arch_dir, real_root, root, mounted, mount_log,
                   umount_log, k, host_efi, nested_efi, de_calls, de_result>>
    /\ UNCHANGED <<orch_vars, cp_vars, boot_vars>>

\* line 509 and the call of line 510: __update__(19); modules.master.install.
\* Line 36 imports the package modules and nothing of it, and src/modules has
\* no __init__.py: the attribute master is there only when the package, or an
\* import made elsewhere in the process, has bound it.  Without it line 510
\* raises AttributeError before install is entered, inside the chroot.
CpUpdate19 ==
    /\ pc = "update_19"
    /\ progress' = Append(progress, Pct(19))
    /\ \E master_bound \in BOOLEAN :
          IF master_bound
          THEN /\ pc' = "install"
               /\ exc' = exc
          ELSE /\ pc' = "raised"
               /\ exc' = "AttributeError"
    /\ UNCHANGED <<entry, settings, processes_to_do, procs, launch_i,
                   each, joined, percent, growth, report, helpers>>
    /\ UNCHANGED <<session_vars, cp_vars, boot_vars>>

-----------------------------------------------------------------------------
(* modules/master.py: the bootloader installer *)

Printable ==
    <<" ", "!", "\"", "#", "$", "%", "&", "'", "(", ")", "*", "+",
      ",", "-", ".", "/", "0", "1", "2", "3", "4", "5", "6", "7", "8", "9",
      ":", ";", "<", "=", ">", "?", "@", "A", "B", "C", "D", "E", "F", "G",
      "H", "I", "J", "K", "L", "M", "N", "O", "P", "Q", "R", "S", "T", "U",
      "V", "W", "X", "Y", "Z", "[", "\\", "]", "^", "_", "backtick", "a", "b", "c",
      "d", "e", "f", "g", "h", "i", "j", "k", "l", "m", "n", "o", "p", "q",
      "r", "s", "t", "u", "v", "w", "x", "y", "z", "{", "|", "}", "~">>

\* ord(c) of a printable ASCII character (position 65 of the table stands
\* for the grave accent, which the notation cannot write)
Ord(c) == 31 + CHOOSE n \in 1..Len(Printable) : Printable[n] = c

\* a < b for Python strings
RECURSIVE StrLess(_, _)
StrLess(a, b) ==
    IF b = <<>> THEN FALSE
    ELSE IF a = <<>> THEN TRUE
    ELSE IF Head(a) = Head(b) THEN StrLess(Tail(a), Tail(b))
    ELSE Ord(Head(a)) < Ord(Head(b))

\* sorted(names)[-1]
SortedLast(names) == CHOOSE m \in names : \A x \in names : x = m \/ StrLess(x, m)

\* int(c) succeeds
IsDigit(c) == c \in {"0", "1", "2", "3", "4", "5", "6", "7", "8", "9"}

DEV_SDA3 == <<"/", "d", "e", "v", "/", "s", "d", "a", "3">>
DEV_SDA == <<"/", "d", "e", "v", "/", "s", "d", "a">>
DEV_SDA12 == <<"/", "d", "e", "v", "/", "s", "d", "a", "1", "2">>
DEV_NVME0N1P2 == <<"/", "d", "e", "v", "/", "n", "v", "m", "e", "0", "n", "1", "p", "2">>
DEV_NVME0N1 == <<"/", "d", "e", "v", "/", "n", "v", "m", "e", "0", "n", "1">>
DEV_SDP1 == <<"/", "d", "e", "v", "/", "s", "d", "p", "1">>

SYSTEMD_BOOT == <<"s", "y", "s", "t", "e", "m", "d", "-", "b", "o", "o", "t">>
GRUB == <<"g", "r", "u", "b">>
GRUB_PC == <<"g", "r", "u", "b", "-", "p", "c">>
U_BOOT_ROCKCHIP == <<"u", "-", "b", "o", "o", "t", "-", "r", "o", "c", "k",
                     "c", "h", "i", "p">>
U_BOOT_RPI == <<"u", "-", "b", "o", "o", "t", "-", "r", "p", "i">>
U_BOOT_TEGRA == <<"u", "-", "b", "o", "o", "t", "-", "t", "e", "g", "r", "a">>
LILO == <<"l", "i", "l", "o">>

K_vmlinuz == <<"v", "m", "l", "i", "n", "u", "z", "-">>
K_config == <<"c", "o", "n", "f", "i", "g", "-">>
K_initrd == <<"i", "n", "i", "t", "r", "d", ".", "i", "m", "g", "-">>
K_sysmap == <<"S", "y", "s", "t", "e", "m", ".", "m", "a", "p", "-">>
B_vmlinuz_54 == K_vmlinuz \o <<"5", ".", "4", ".", "0", "-", "3">>
B_vmlinuz_510 == K_vmlinuz \o <<"5", ".", "1", "0", ".", "0", "-", "9">>
B_config_54 == K_config \o <<"5", ".", "4", ".", "0", "-", "3">>
B_config_510 == K_config \o <<"5", ".", "1", "0", ".", "0", "-", "9">>
B_initrd_54 == K_initrd \o <<"5", ".", "4", ".", "0", "-", "3">>
B_initrd_510 == K_initrd \o <<"5", ".", "1", "0", ".", "0", "-", "9">>
B_sysmap_54 == K_sysmap \o <<"5", ".", "4", ".", "0", "-", "3">>
B_sysmap_510 == K_sysmap \o <<"5", ".", "1", "0", ".", "0", "-", "9">>
B_efi == <<"e", "f", "i">>

UUID_A == <<"0", "a", "1", "b", "-", "0", "1", "\n">>
UUID_B == <<"9", "f", "8", "e", "-", "0", "2", "\n">>
BLKID_FAILS == <<"exit 2">>

D_efi == "/boot/efi"
D_loader == "/boot/efi/loader"
D_entries == "/boot/efi/loader/entries"
D_drauger == "/boot/efi/Drauger_OS"
D_EFI == "/boot/efi/EFI"
D_EFI_systemd == "/boot/efi/EFI/systemd"
D_EFI_BOOT == "/boot/efi/EFI/BOOT"
D_EFI_Linux == "/boot/efi/EFI/Linux"
F_primary == "/boot/efi/loader/entries/Drauger_OS.conf"
F_recovery == "/boot/efi/loader/entries/Drauger_OS_Recovery.conf"
F_loader_conf == "/boot/efi/loader/loader.conf"
F_environment == "/etc/environment"
F_bootx64 == "/boot/efi/EFI/BOOT/BOOTX64.EFI"
F_systemd_bootx64 == "/boot/efi/EFI/systemd/systemd-bootx64.efi"
F_vmlinuz == "/boot/efi/Drauger_OS/vmlinuz"
F_config == "/boot/efi/Drauger_OS/config"
F_initrd == "/boot/efi/Drauger_OS/initrd.img"
F_sysmap == "/boot/efi/Drauger_OS/System.map"

\* directory of a file the stage writes
DirOf(f) ==
    CASE f \in {F_primary, F_recovery} -> D_entries
      [] f = F_loader_conf -> D_loader
      [] f = F_bootx64 -> D_EFI_BOOT
      [] f = F_systemd_bootx64 -> D_EFI_systemd
      [] f \in {F_vmlinuz, F_config, F_initrd, F_sysmap} -> D_drauger
      [] OTHER -> "/etc"

\* os.path.exists(f)
PathExists(files, f) == f \in DOMAIN files

\* CanWrite for a target on which every write succeeds
CanWrite_Always(dirs, f) == TRUE

\* open(f, "w+") succeeds: the directory is there and the file may be written
CanWrite(dirs, f) == (DirOf(f) = "/etc" \/ DirOf(f) \in dirs) /\ f \notin unwritable

\* the file f with content c
WriteFile(files, f, c) == [x \in DOMAIN files \cup {f} |-> IF x = f THEN c ELSE files[x]]

\* lines 309 - 312 and 326 - 329: the text of an entry
EntryText(title, id, flags) ==
    [title |-> title, linux |-> "/Drauger_OS/vmlinuz",
     initrd |-> "/Drauger_OS/initrd.img",
     options |-> <<"root=PARTUUID=", id, flags>>]

root_flags == "quiet splash"
recovery_flags == "ro recovery nomodeset"

\* an entry that was not written by this program
ForeignEntry ==
    [title |-> "Hand made", linux |-> "/vmlinuz", initrd |-> "/initrd.img",
     options |-> <<"root=LABEL=", <<"r", "o", "o", "t">>, "quiet">>]

\* _install_grub lines 215 - 220: delete trailing characters int() accepts
RECURSIVE StripDigits(_)
StripDigits(r) ==
    IF r = <<>> THEN r
    ELSE IF IsDigit(r[Len(r)]) THEN StripDigits(SubSeq(r, 1, Len(r) - 1))
    ELSE r

\* ParentDisk without the deletion of the trailing "p"
ParentDisk_KeepP(r) == StripDigits(r)

\* _install_grub lines 214 - 223: the disk handed to grub-install.  Only
\* defined when something is left after the digits: root[-1] of an empty
\* list raises IndexError.
ParentDisk(r) ==
    LET d == StripDigits(r)
    IN  IF d[Len(d)] = "p" THEN SubSeq(d, 1, Len(d) - 1) ELSE d

UBoots == {U_BOOT_ROCKCHIP, U_BOOT_RPI, U_BOOT_TEGRA}

\* Where control goes when install_bootloader returns: to line 291 of
\* setup_lowlevel when that called it, else the run is over
Finished == IF entry = "setup_lowlevel" THEN "symlinks" ELSE "done"

\* RunTool that goes on whatever the exit status
RunTool_Continue(cmd, arg, ok, next) ==
    /\ tool_log' = Append(tool_log, [cmd |-> cmd, arg |-> arg, ok |-> ok])
    /\ pc' = next
    /\ exc' = exc

\* check_call(cmd): a non-zero exit raises CalledProcessError
RunTool(cmd, arg, ok, next) ==
    /\ tool_log' = Append(tool_log, [cmd |-> cmd, arg |-> arg, ok |-> ok])
    /\ pc' = IF ok THEN next ELSE "raised"
    /\ exc' = IF ok THEN exc ELSE "CalledProcessError"

REL_54 == <<"5", ".", "4", ".", "0", "-", "3">>
REL_510 == <<"5", ".", "1", "0", ".", "0", "-", "9">>

\* What uname --release prints: the release of the running kernel and a newline
UnameOutputs == {REL_54 \o <<"\n">>, REL_510 \o <<"\n">>}

B_initrd_link == <<"i", "n", "i", "t", "r", "d", ".", "i", "m", "g">>
B_vmlinuz_link == <<"v", "m", "l", "i", "n", "u", "z">>

\* setup_lowlevel line 286: uname --release, whose output without its last
\* character is the release; a non-zero exit raises CalledProcessError
SetupLowlevel ==
    /\ pc = "uname"
    /\ \E out \in UnameOutputs, ok \in BOOLEAN :
          /\ RunTool("uname --release", <<>>, ok, "plymouth_install")
          /\ release' = IF ok THEN PySliceTo(out, -1) ELSE release
    /\ UNCHANGED <<entry, bootloader, root_dev, grub_disk, boot_dirs, boot_files,
                   boot_list, unwritable, part_uuid, uuid, warned, runs,
                   run_start, first_end, copy_log>>
    /\ UNCHANGED <<session_vars, orch_vars, cp_vars>>

\* set_plymouth_theme lines 175 - 182: Popen of update-alternatives
\* --install.  Nothing waits for this process and nothing looks at its exit
\* status: it runs on beside whatever the program does next.
SetPlymouthThemeInstall ==
    /\ pc = "plymouth_install"
    /\ helpers' = [helpers EXCEPT ![PLYMOUTH_INSTALL] = "running"]
    /\ pc' = "plymouth_config"
    /\ UNCHANGED <<entry, exc, settings, processes_to_do, procs, launch_i,
                   each, joined, percent, growth, progress, report>>
    /\ UNCHANGED <<session_vars, cp_vars, boot_vars>>

\* set_plymouth_theme lines 183 - 186: Popen of update-alternatives --config
\* and communicate(), which waits for its end; its exit status is not
\* looked at
SetPlymouthThemeConfig ==
    /\ pc = "plymouth_config"
    /\ \E ok \in BOOLEAN :
          tool_log' = Append(tool_log, [cmd |-> "update-alternatives --config",
                                        arg |-> <<>>, ok |-> ok])
    /\ pc' = "mkinitramfs"
    /\ exc' = exc
    /\ UNCHANGED <<entry, bootloader, root_dev, release, grub_disk, boot_dirs,
                   boot_files, boot_list, unwritable, part_uuid, uuid, warned,
                   runs, run_start, first_end, copy_log>>
    /\ UNCHANGED <<session_vars, orch_vars, cp_vars>>

\* setup_lowlevel lines 288 - 290: mkinitramfs -o /boot/initrd.img-<release>,
\* then the call of install_bootloader(efi, root, release); a non-zero exit
\* of mkinitramfs raises CalledProcessError
SetupLowlevelMkinitramfs ==
    /\ pc = "mkinitramfs"
    /\ \E ok \in BOOLEAN :
          /\ RunTool("mkinitramfs", K_initrd \o release, ok, "install_bootloader")
          /\ boot_list' = IF ok THEN boot_list \cup {K_initrd \o release}
                          ELSE boot_list
    /\ UNCHANGED <<entry, bootloader, root_dev, release, grub_disk, boot_dirs,
                   boot_files, unwritable, part_uuid, uuid, warned, runs,
                   run_start, first_end, copy_log>>
    /\ UNCHANGED <<session_vars, orch_vars, cp_vars>>

\* setup_lowlevel lines 291 - 293: the links /boot/initrd.img and
\* /boot/vmlinuz; symlink raises FileExistsError on a name that is there
SetupLowlevelLinks ==
    /\ pc = "symlinks"
    /\ IF B_initrd_link \in boot_list
       THEN /\ boot_list' = boot_list
            /\ exc' = "FileExistsError"
            /\ pc' = "raised"
       ELSE IF B_vmlinuz_link \in boot_list
       THEN /\ boot_list' = boot_list \cup {B_initrd_link}
            /\ exc' = "FileExistsError"
            /\ pc' = "raised"
       ELSE /\ boot_list' = boot_list \cup {B_initrd_link, B_vmlinuz_link}
            /\ exc' = exc
            /\ pc' = "done"
    /\ UNCHANGED <<entry, bootloader, root_dev, release, grub_disk, tool_log,
                   boot_dirs, boot_files, unwritable, part_uuid, uuid, warned,
                   runs, run_start, first_end, copy_log>>
    /\ UNCHANGED <<session_vars, orch_vars, cp_vars>>

\* install_bootloader lines 201 - 207: choose the strategy
InstallBootloader ==
    /\ pc = "install_bootloader"
    /\ pc' = IF bootloader = SYSTEMD_BOOT THEN "sd_mkdirs"
             ELSE IF Contains(GRUB, bootloader) THEN "apt_install"
             ELSE IF bootloader \in UBoots THEN "apt_install"
             ELSE Finished
    /\ UNCHANGED <<entry, exc>>
    /\ UNCHANGED <<session_vars, orch_vars, cp_vars, boot_vars>>

\* _install_bootloader_package line 194, and where lines 204 - 207 go next
InstallBootloaderPackage ==
    /\ pc = "apt_install"
    /\ \E ok \in BOOLEAN :
          RunTool("apt install", bootloader, ok,
                  IF Contains(GRUB, bootloader) THEN "_install_grub" ELSE Finished)
    /\ UNCHANGED <<entry, bootloader, root_dev, release, grub_disk, boot_dirs,
                   boot_files, boot_list, unwritable, part_uuid, uuid, warned,
                   runs, run_start, first_end, copy_log>>
    /\ UNCHANGED <<session_vars, orch_vars, cp_vars>>

\* _install_grub lines 214 - 223: derive the parent disk
GrubParentDisk ==
    /\ pc = "_install_grub"
    /\ IF StripDigits(root_dev) = <<>>
       THEN /\ exc' = "IndexError"
            /\ pc' = "raised"
            /\ grub_disk' = grub_disk
       ELSE /\ grub_disk' = ParentDisk(root_dev)
            /\ pc' = "grub_mkdevicemap"
            /\ exc' = exc
    /\ UNCHANGED <<entry, bootloader, root_dev, release, tool_log, boot_dirs,
                   boot_files, boot_list, unwritable, part_uuid, uuid, warned,
                   runs, run_start, first_end, copy_log>>
    /\ UNCHANGED <<session_vars, orch_vars, cp_vars>>

\* _install_grub line 224
GrubMkdevicemap ==
    /\ pc = "grub_mkdevicemap"
    /\ \E ok \in BOOLEAN : RunTool("grub-mkdevicemap", <<>>, ok, "grub_install")
    /\ UNCHANGED <<entry, bootloader, root_dev, release, grub_disk, boot_dirs,
                   boot_files, boot_list, unwritable, part_uuid, uuid, warned,
                   runs, run_start, first_end, copy_log>>
    /\ UNCHANGED <<session_vars, orch_vars, cp_vars>>

\* _install_grub lines 225 - 226
GrubInstall ==
    /\ pc = "grub_install"
    /\ \E ok \in BOOLEAN : RunTool("grub-install", grub_disk, ok, "grub_mkconfig")
    /\ UNCHANGED <<entry, bootloader, root_dev, release, grub_disk, boot_dirs,
                   boot_files, boot_list, unwritable, part_uuid, uuid, warned,
                   runs, run_start, first_end, copy_log>>
    /\ UNCHANGED <<session_vars, orch_vars, cp_vars>>

\* _install_grub lines 227 - 228
GrubMkconfig ==
    /\ pc = "grub_mkconfig"
    /\ \E ok \in BOOLEAN : RunTool("grub-mkconfig", <<>>, ok, Finished)
    /\ UNCHANGED <<entry, bootloader, root_dev, release, grub_disk, boot_dirs,
                   boot_files, boot_list, unwritable, part_uuid, uuid, warned,
                   runs, run_start, first_end, copy_log>>
    /\ UNCHANGED <<session_vars, orch_vars, cp_vars>>

\* _install_systemd_boot lines 232 - 241: the directory tree and the
\* environment override.  Only /boot/efi may exist already; mkdir of any of
\* the other three raises FileExistsError when it is there.
SdMkdirs ==
    /\ pc = "sd_mkdirs"
    /\ IF {D_loader, D_entries, D_drauger} \cap boot_dirs # {}
       THEN /\ exc' = "FileExistsError"
            /\ pc' = "raised"
            /\ boot_dirs' =
                 boot_dirs \cup {D_efi}
                   \cup (IF D_loader \in boot_dirs THEN {}
                         ELSE IF D_entries \in boot_dirs THEN {D_loader}
                         ELSE {D_loader, D_entries})
            /\ boot_files' = boot_files
       ELSE /\ boot_dirs' = boot_dirs \cup {D_efi, D_loader, D_entries, D_drauger}
            /\ boot_files' =
                 WriteFile(boot_files, F_environment,
                           (IF PathExists(boot_files, F_environment)
                            THEN boot_files[F_environment] ELSE <<>>)
                             \o <<"export SYSTEMD_RELAX_ESP_CHECKS=1">>)
            /\ pc' = "sd_bootctl"
            /\ exc' = exc
    /\ boot_list' = boot_list \cup {B_efi}
    /\ UNCHANGED <<entry, bootloader, root_dev, release, grub_disk, tool_log,
                   unwritable, part_uuid, uuid, warned, runs, run_start,
                   first_end, copy_log>>
    /\ UNCHANGED <<session_vars, orch_vars, cp_vars>>

\* _install_systemd_boot lines 242 - 246: bootctl install; its failure is
\* answered with the manual installation
SdBootctl ==
    /\ pc = "sd_bootctl"
    /\ \E ok \in BOOLEAN :
          /\ tool_log' = Append(tool_log, [cmd |-> "bootctl install",
                                           arg |-> <<>>, ok |-> ok])
          /\ pc' = IF ok THEN "sd_loader_conf" ELSE "sd_manual"
    /\ UNCHANGED <<entry, exc, bootloader, root_dev, release, grub_disk,
                   boot_dirs, boot_files, boot_list, unwritable, part_uuid,
                   uuid, warned, runs, run_start, first_end, copy_log>>
    /\ UNCHANGED <<session_vars, orch_vars, cp_vars>>

\* _install_systemd_boot lines 247 - 271: the manual installation of the
\* boot stub.  The four mkdir pass over a directory that is there.  copyfile
\* raises FileNotFoundError when the target root has no
\* /usr/lib/systemd/boot/efi/systemd-bootx64.efi, which except
\* FileExistsError does not catch.
SdManual ==
    /\ pc = "sd_manual"
    /\ boot_dirs' = boot_dirs \cup {D_EFI, D_EFI_systemd, D_EFI_BOOT, D_EFI_Linux}
    /\ \E stub_there \in BOOLEAN :
          IF stub_there
          THEN /\ boot_files' = WriteFile(WriteFile(boot_files, F_bootx64, "stub"),
                                          F_systemd_bootx64, "stub")
               /\ pc' = "sd_loader_conf"
               /\ exc' = exc
          ELSE /\ boot_files' = boot_files
               /\ pc' = "raised"
               /\ exc' = "FileNotFoundError"
    /\ UNCHANGED <<entry, bootloader, root_dev, release, grub_disk, tool_log,
                   boot_list, unwritable, part_uuid, uuid, warned, runs,
                   run_start, first_end, copy_log>>
    /\ UNCHANGED <<session_vars, orch_vars, cp_vars>>

\* _install_systemd_boot lines 272 - 273: write loader.conf.  A failing
\* open() is not caught.
SdLoaderConf ==
    /\ pc = "sd_loader_conf"
    /\ IF CanWrite(boot_dirs, F_loader_conf)
       THEN /\ boot_files' = WriteFile(boot_files, F_loader_conf,
                                       "default Drauger_OS\ntimeout 5\neditor 1")
            /\ pc' = "sd_chattr"
            /\ exc' = exc
       ELSE /\ exc' = "PermissionError"
            /\ pc' = "raised"
            /\ boot_files' = boot_files
    /\ UNCHANGED <<entry, bootloader, root_dev, release, grub_disk, tool_log,
                   boot_dirs, boot_list, unwritable, part_uuid, uuid, warned,
                   runs, run_start, first_end, copy_log>>
    /\ UNCHANGED <<session_vars, orch_vars, cp_vars>>

\* _install_systemd_boot lines 274 - 278: chattr -i on loader.conf, waited
\* for; its failure is answered with chmod 444
SdChattr ==
    /\ pc = "sd_chattr"
    /\ \E ok \in BOOLEAN :
          tool_log' = Append(tool_log, [cmd |-> "chattr -i", arg |-> <<>>,
                                        ok |-> ok])
    /\ pc' = "sd_config"
    /\ UNCHANGED <<entry, exc, bootloader, root_dev, release, grub_disk,
                   boot_dirs, boot_files, boot_list, unwritable, part_uuid,
                   uuid, warned, runs, run_start, first_end, copy_log>>
    /\ UNCHANGED <<session_vars, orch_vars, cp_vars>>

F_hook == "/etc/kernel/postinst.d/zz-update-systemd-boot"

\* _install_systemd_boot line 279: systemd_boot_config.systemd_boot_config(root).
\* The module is not among the sources; by the specification this step
\* writes the kernel-postinstall hook entry, the file line 280 runs.
SdConfig ==
    /\ pc = "sd_config"
    /\ boot_files' = WriteFile(boot_files, F_hook, <<"hook", root_dev>>)
    /\ pc' = "sd_hook"
    /\ UNCHANGED <<entry, exc, bootloader, root_dev, release, grub_disk,
                   tool_log, boot_dirs, boot_list, unwritable, part_uuid,
                   uuid, warned, runs, run_start, first_end, copy_log>>
    /\ UNCHANGED <<session_vars, orch_vars, cp_vars>>

\* _install_systemd_boot lines 280 - 281: the hook is run, a non-zero exit
\* raises CalledProcessError; then check_systemd_boot is called, on the files
\* as they are then
SdHook ==
    /\ pc = "sd_hook"
    /\ \E ok \in BOOLEAN :
          /\ RunTool(F_hook, <<>>, ok, "check_systemd_boot")
          /\ run_start' = IF ok THEN boot_files ELSE run_start
    /\ UNCHANGED <<entry, bootloader, root_dev, release, grub_disk, boot_dirs,
                   boot_files, boot_list, unwritable, part_uuid, uuid, warned,
                   runs, first_end, copy_log>>
    /\ UNCHANGED <<session_vars, orch_vars, cp_vars>>

\* check_systemd_boot line 301: blkid; its output without the last character
CsbUuid ==
    /\ pc = "check_systemd_boot"
    /\ IF part_uuid = BLKID_FAILS
       THEN /\ RunTool("blkid", root_dev, FALSE, "csb_primary")
            /\ uuid' = uuid
       ELSE /\ RunTool("blkid", root_dev, TRUE, "csb_primary")
            /\ uuid' = PySliceTo(part_uuid, -1)
    /\ UNCHANGED <<entry, bootloader, root_dev, release, grub_disk, boot_dirs,
                   boot_files, boot_list, unwritable, part_uuid, warned,
                   runs, run_start, first_end, copy_log>>
    /\ UNCHANGED <<session_vars, orch_vars, cp_vars>>

\* EntryMissing that takes every entry to be missing
EntryMissing_Always(files, f) == TRUE

\* the test of lines 304 and 321
EntryMissing(files, f) == ~ PathExists(files, f)

\* check_systemd_boot lines 303 - 319: the primary entry; failing to write
\* it raises IOError
CsbPrimary ==
    /\ pc = "csb_primary"
    /\ IF EntryMissing(boot_files, F_primary)
       THEN IF CanWrite(boot_dirs, F_primary)
            THEN /\ boot_files' = WriteFile(boot_files, F_primary,
                                            EntryText("Drauger OS", uuid, root_flags))
                 /\ pc' = "csb_recovery"
                 /\ exc' = exc
            ELSE /\ boot_files' = boot_files
                 /\ pc' = "raised"
                 /\ exc' = "IOError"
       ELSE /\ boot_files' = boot_files
            /\ pc' = "csb_recovery"
            /\ exc' = exc
    /\ UNCHANGED <<entry, bootloader, root_dev, release, grub_disk, tool_log, boot_dirs,
                   boot_list, unwritable, part_uuid, uuid, warned, runs,
                   run_start, first_end, copy_log>>
    /\ UNCHANGED <<session_vars, orch_vars, cp_vars>>

\* check_systemd_boot lines 320 - 336: the recovery entry; failing to write
\* it issues a warning
CsbRecovery ==
    /\ pc = "csb_recovery"
    /\ IF EntryMissing(boot_files, F_recovery)
       THEN IF CanWrite(boot_dirs, F_recovery)
            THEN /\ boot_files' = WriteFile(boot_files, F_recovery,
                                            EntryText("Drauger OS Recovery", uuid,
                                                      recovery_flags))
                 /\ warned' = warned
            ELSE /\ boot_files' = boot_files
                 /\ warned' = Append(warned, "Cannot make recovery systemd-boot entry config file")
       ELSE UNCHANGED <<boot_files, warned>>
    /\ pc' = "csb_sync"
    /\ UNCHANGED <<entry, exc, bootloader, root_dev, release, grub_disk, tool_log,
                   boot_dirs, boot_list, unwritable, part_uuid, uuid, runs,
                   run_start, first_end, copy_log>>
    /\ UNCHANGED <<session_vars, orch_vars, cp_vars>>

\* lines 345 - 353: the names of /boot by kind, an elif chain of substring tests
KindOf(name) ==
    IF Contains(K_vmlinuz, name) THEN "vmlinuz"
    ELSE IF Contains(K_config, name) THEN "config"
    ELSE IF Contains(K_initrd, name) THEN "initrd"
    ELSE IF Contains(K_sysmap, name) THEN "sysmap"
    ELSE "other"

\* OfKind that takes every name of /boot to be of every kind
OfKind_Any(kind) == boot_list

\* lines 340 - 353: the list the loop builds for one kind
OfKind(kind) == {n \in boot_list : KindOf(n) = kind}

\* DestinationMissing that takes every destination to be missing
DestinationMissing_Always(files, dst) == TRUE

\* the test of lines 363, 369, 375 and 381
DestinationMissing(files, dst) == ~ PathExists(files, dst)

\* lines 363 - 386: copy src to dst unless dst exists
CopyIfAbsent(files, kind, dst) ==
    IF DestinationMissing(files, dst)
    THEN WriteFile(files, dst, [copy_of |-> SortedLast(OfKind(kind))])
    ELSE files

\* lines 363 - 386: the copyfile calls made when the files are as in files,
\* in program order
Copies(files) ==
    LET plan == << [kind |-> "vmlinuz", dst |-> F_vmlinuz],
                   [kind |-> "config",  dst |-> F_config],
                   [kind |-> "initrd",  dst |-> F_initrd],
                   [kind |-> "sysmap",  dst |-> F_sysmap] >>
        Made(n) == IF DestinationMissing(files, plan[n].dst)
                   THEN << [run |-> runs, src |-> SortedLast(OfKind(plan[n].kind)),
                            dst |-> plan[n].dst] >>
                   ELSE <<>>
    IN  Made(1) \o Made(2) \o Made(3) \o Made(4)

\* check_systemd_boot lines 338 - 386: select the newest artifacts and copy
\* the ones that are not in place.  [-1] of an empty list raises IndexError;
\* copyfile into a missing directory raises FileNotFoundError.
CsbSync ==
    /\ pc = "csb_sync"
    /\ IF \E kind \in {"vmlinuz", "config", "initrd", "sysmap"} : OfKind(kind) = {}
       THEN /\ exc' = "IndexError"
            /\ pc' = "raised"
            /\ UNCHANGED <<boot_files, copy_log>>
       ELSE IF D_drauger \notin boot_dirs
            THEN /\ exc' = "FileNotFoundError"
                 /\ pc' = "raised"
                 /\ UNCHANGED <<boot_files, copy_log>>
            ELSE /\ copy_log' = copy_log \o Copies(boot_files)
                 /\ boot_files' =
                      CopyIfAbsent(
                        CopyIfAbsent(
                          CopyIfAbsent(
                            CopyIfAbsent(boot_files, "vmlinuz", F_vmlinuz),
                            "config", F_config),
                          "initrd", F_initrd),
                        "sysmap", F_sysmap)
                 /\ pc' = Finished
                 /\ exc' = exc
    /\ UNCHANGED <<entry, bootloader, root_dev, release, grub_disk, tool_log, boot_dirs,
                   boot_list, unwritable, part_uuid, uuid, warned, runs,
                   run_start, first_end>>
    /\ UNCHANGED <<session_vars, orch_vars, cp_vars>>

\* The number of times the bootloader stage is run on one target root
MaxRuns == 2

\* The caller runs the stage again on the same target root
RunAgain ==
    /\ entry \in {"install_bootloader", "check_systemd_boot"}
    /\ pc \in {"done", "raised"}
    /\ runs < MaxRuns
    /\ runs' = runs + 1
    /\ first_end' = IF runs = 1 THEN boot_files ELSE first_end
    /\ run_start' = boot_files
    /\ pc' = entry
    /\ exc' = "none"
    /\ UNCHANGED <<entry, bootloader, root_dev, release, grub_disk, tool_log, boot_dirs,
                   boot_files, boot_list, unwritable, part_uuid, uuid, warned,
                   copy_log>>
    /\ UNCHANGED <<session_vars, orch_vars, cp_vars>>

-----------------------------------------------------------------------------
(* The runs that are modelled *)

\* The record setup() builds (lines 376 - 410), for a host name and a locale
SetupRecord(hostname, lang) ==
    [ INTERNET |-> TrueVal, USERNAME |-> STR_bob, PASSWORD |-> STR_pw,
      COMPUTER_NAME |-> hostname, UPDATES |-> FalseVal, LOGIN |-> TrueVal,
      TIME_ZONE |-> STR_US_Central, LANG |-> lang, MODEL |-> NO_KEYBOARD,
      LAYOUT |-> EMPTY, VARIANT |-> EMPTY, FILE_DESC |-> <<"devnull">> ]
      @@ ("bootloader package" :> STR_grub)

\* A record that has every field an action reads
FullRecord ==
    Put(Put(Put(SetupRecord(STR_pc, STR_C), "VARIENT", EMPTY), "EFI", STR_grub),
        "ROOT", <<"/", "d", "e", "v", "/", "s", "d", "a", "3">>)

\* The records configuration_procedure is given
CpSettings ==
    { SetupRecord(STR_pc, STR_C), SetupRecord(EMPTY, NoneVal),
      Without(SetupRecord(STR_pc, STR_C), "LOGIN"),
      Without(SetupRecord(STR_pc, STR_C), "TIME_ZONE") }

\* A record in which every field is populated, with a keyboard to configure
STR_pc105 == <<"p", "c", "1", "0", "5">>
STR_de == <<"d", "e">>
PopulatedRecord ==
    [ INTERNET |-> TrueVal, USERNAME |-> STR_bob, PASSWORD |-> STR_pw,
      COMPUTER_NAME |-> STR_pc, UPDATES |-> TrueVal, LOGIN |-> FalseVal,
      TIME_ZONE |-> STR_US_Central, LANG |-> STR_C, MODEL |-> STR_pc105,
      LAYOUT |-> STR_de, VARIENT |-> STR_de ]

\* The fields the defaulting pass looks at, and the two an action reads that
\* it does not look at
PassFields == {"LANG", "TIME_ZONE", "USERNAME", "COMPUTER_NAME", "PASSWORD",
               "UPDATES", "MODEL", "LAYOUT", "VARIENT", "LOGIN", "INTERNET"}

\* What a field of a record may be: absent, "", None, or a populated value
ABSENT == <<"absent">>
FieldStates == {ABSENT, EMPTY, NoneVal, NO_KEYBOARD}

Vary(s, f, v) == IF v = ABSENT THEN Without(s, f) ELSE Put(s, f, v)

Variations(s) == {s} \cup {Vary(s, f, v) : f \in PassFields, v \in FieldStates}

\* The records the defaulting pass is run on: the record of setup() and the
\* populated record, with up to two fields varied
PassRecords ==
    UNION {Variations(r) : r \in Variations(PopulatedRecord)
                                  \cup Variations(SetupRecord(STR_pc, STR_C))}

\* The records and action lists MainInstallation is given directly
OrchSettings ==
    { FullRecord, Without(FullRecord, "PASSWORD"), Without(FullRecord, "LANG") }

OrchLists ==
    { <<>>, <<"time_set">>, <<"locale_set", "time_set">>,
      <<"locale_set", "set_passwd", "time_set">>, InstallList }

-----------------------------------------------------------------------------
vars == <<entry, pc, exc, path_dir, arch_dir, real_root, root, cwd, mounted,
          mount_log, umount_log, k, host_efi, nested_efi, de_calls,
          de_result, settings, processes_to_do, procs, launch_i, each, joined, percent,
          growth, progress, report, helpers, img_mounted, target_fs,
          settings_in, bootloader,
          root_dev, release, grub_disk, tool_log, boot_dirs, boot_files, boot_list,
          unwritable, part_uuid, uuid, warned, runs, run_start, first_end, copy_log>>

InitSession ==
    /\ arch_dir = <<>>
    /\ real_root = "none"
    /\ root = ROOT_DIR
    /\ cwd = ROOT_DIR
    /\ mount_log = <<>>
    /\ umount_log = <<>>
    /\ k = 0
    /\ de_calls = 0
    /\ de_result = "unset"

InitOrch ==
    /\ procs = [a \in Actions |-> "unstarted"]
    /\ launch_i = 1
    /\ each = 0
    /\ joined = <<>>
    /\ percent = Pct(0)
    /\ growth = Pct(0)
    /\ progress = <<>>
    /\ report = <<>>
    /\ helpers = [h \in Helpers |-> "unstarted"]

InitCp ==
    /\ img_mounted = FALSE
    /\ target_fs = [staged |-> {}, resolv |-> "image", save |-> "absent"]

\* the bootloader stage of a run that is not started through it
InitBootIdle ==
    /\ bootloader = GRUB_PC
    /\ root_dev = DEV_SDA3
    /\ boot_dirs = {}
    /\ boot_files = <<>>
    /\ boot_list = {}
    /\ unwritable = {}
    /\ part_uuid = UUID_A

InitBoot ==
    /\ release = IF entry = "setup_lowlevel" THEN <<>> ELSE REL_54
    /\ grub_disk = <<>>
    /\ tool_log = <<>>
    /\ uuid = <<>>
    /\ warned = <<>>
    /\ runs = 1
    /\ run_start = boot_files
    /\ first_end = <<>>
    /\ copy_log = <<>>

\* the runs that do not start in the orchestrator
InitOrchIdle ==
    /\ path_dir = MNT
    /\ mounted = {}
    /\ host_efi = FALSE
    /\ nested_efi = FALSE
    /\ settings = FullRecord
    /\ processes_to_do = <<>>

RootDevices == {DEV_SDA3, DEV_NVME0N1P2, DEV_SDA12, DEV_SDP1}

Bootloaders == {SYSTEMD_BOOT, GRUB_PC, U_BOOT_RPI, LILO}

\* The files of /boot: both kernels whole, one kernel without its System.map,
\* or none
BootListings ==
    { {B_vmlinuz_54, B_vmlinuz_510, B_config_54, B_config_510, B_initrd_54,
       B_initrd_510, B_sysmap_54, B_sysmap_510},
      {B_vmlinuz_54, B_config_54, B_initrd_54},
      {} }

\* listdir("/boot") of a /boot with the files l: the directory efi is among
\* the names when it is there
ListDir(l, dirs) == IF D_efi \in dirs THEN l \cup {B_efi} ELSE l

\* install_bootloader(bootloader, root, release) on a target root where
\* /boot/efi may be there
InitInstallBootloader ==
    /\ entry = "install_bootloader"
    /\ pc = "install_bootloader"
    /\ InitOrchIdle
    /\ bootloader \in Bootloaders
    /\ root_dev \in RootDevices
    /\ boot_dirs \in {{}, {D_efi}}
    /\ boot_files = <<>>
    /\ boot_list \in {ListDir(l, boot_dirs) : l \in BootListings}
    /\ unwritable \in SUBSET {F_primary, F_recovery, F_loader_conf}
    /\ part_uuid \in {UUID_A, BLKID_FAILS}

\* What /boot holds when setup_lowlevel is called: one kernel, one kernel
\* without its initrd, or a kernel with the links of an earlier call
LowlevelListings ==
    { {B_vmlinuz_54},
      {B_vmlinuz_54, B_config_54, B_sysmap_54},
      {B_vmlinuz_54, B_config_54, B_sysmap_54, B_initrd_54, B_initrd_link,
       B_vmlinuz_link},
      {B_vmlinuz_54, B_config_54, B_sysmap_54, B_initrd_54, B_vmlinuz_link} }

\* setup_lowlevel(efi, root), called as its signature allows
InitSetupLowlevel ==
    /\ entry = "setup_lowlevel"
    /\ pc = "uname"
    /\ InitOrchIdle
    /\ bootloader \in {SYSTEMD_BOOT, GRUB_PC, LILO}
    /\ root_dev = DEV_SDA3
    /\ boot_dirs \in {{}, {D_efi}}
    /\ boot_files = <<>>
    /\ boot_list \in {ListDir(l, boot_dirs) : l \in LowlevelListings}
    /\ unwritable = {}
    /\ part_uuid = UUID_A

\* check_systemd_boot(release, root) on a target root whose loader tree is
\* there; either entry may have been put there by hand before
InitCheckSystemdBoot ==
    /\ entry = "check_systemd_boot"
    /\ pc = "check_systemd_boot"
    /\ InitOrchIdle
    /\ bootloader = SYSTEMD_BOOT
    /\ root_dev = DEV_SDA3
    /\ boot_dirs \in {{D_efi, D_loader, D_entries, D_drauger},
                      {D_efi, D_loader, D_entries}}
    /\ \E present \in SUBSET {F_primary, F_recovery, F_vmlinuz} :
          /\ F_vmlinuz \in present => D_drauger \in boot_dirs
          /\ boot_files = [f \in present |-> ForeignEntry]
    /\ boot_list \in {ListDir(l, boot_dirs) : l \in BootListings}
    /\ unwritable \in SUBSET {F_primary, F_recovery}
    /\ part_uuid \in {UUID_A, UUID_B, BLKID_FAILS}

\* arch_chroot(path_dir); the caller's work; de_chroot(real_root, path_dir)
InitChrootSession ==
    /\ entry = "chroot_session"
    /\ pc = "arch_chroot"
    /\ path_dir \in TargetPaths
    /\ host_efi \in BOOLEAN
    /\ nested_efi \in BOOLEAN
    /\ settings = FullRecord
    /\ processes_to_do = <<>>
    /\ mounted = {}
    /\ InitBootIdle

\* MainInstallation(processes_to_do, settings)
InitMainInstallation ==
    /\ entry = "MainInstallation"
    /\ pc = "orch_launch"
    /\ path_dir = MNT
    /\ host_efi = FALSE
    /\ nested_efi = FALSE
    /\ settings \in OrchSettings
    /\ processes_to_do \in OrchLists
    /\ mounted = {}
    /\ InitBootIdle

\* configuration_procedure(settings, location)
InitConfigurationProcedure ==
    /\ entry = "configuration_procedure"
    /\ pc = "configuration_procedure"
    /\ path_dir = MNT
    /\ host_efi \in BOOLEAN
    /\ nested_efi \in BOOLEAN
    /\ settings \in CpSettings
    /\ processes_to_do = <<>>
    /\ mounted = {}
    /\ InitBootIdle

\* lines 429 - 506 of configuration_procedure on their own
InitDefaultingPass ==
    /\ entry = "defaulting_pass"
    /\ pc = "defaults"
    /\ path_dir = MNT
    /\ host_efi = FALSE
    /\ nested_efi = FALSE
    /\ settings \in PassRecords
    /\ processes_to_do = <<>>
    /\ mounted = {}
    /\ InitBootIdle

\* The mount tables and paths __unmount__ is called on by itself
UnmountTables ==
    { {},
      {[at |-> MNT \o TMP, dev |-> "tmp"]},
      {[at |-> MNT \o DEV, dev |-> "udev"]},
      {[at |-> MNT \o DEV, dev |-> "udev"], [at |-> MNT \o DEV_PTS, dev |-> "devpts"]} }

UnmountPaths == {MNT \o DEV, MNT \o TMP}

\* __unmount__(path_dir) called outside a chroot
InitUnmount ==
    /\ entry = "__unmount__"
    /\ pc = "__unmount__"
    /\ path_dir \in UnmountPaths
    /\ mounted \in UnmountTables
    /\ host_efi = FALSE
    /\ nested_efi = FALSE
    /\ settings = FullRecord
    /\ processes_to_do = <<>>
    /\ InitBootIdle

\* The records line 404 of install is evaluated on
TailSettings ==
    { Put(SetupRecord(STR_pc, STR_C), "VARIENT", ENGLISH_US), FullRecord,
      Without(FullRecord, "ROOT") }

\* line 404 of install, reached when MainInstallation(...) has returned
InitSetupLowlevelCall ==
    /\ entry = "setup_lowlevel_call"
    /\ pc = "setup_lowlevel"
    /\ path_dir = MNT
    /\ mounted = {}
    /\ host_efi = FALSE
    /\ nested_efi = FALSE
    /\ settings \in TailSettings
    /\ processes_to_do = <<>>
    /\ InitBootIdle

\* The mount table when line 512 is reached: the image on /mnt, alone or
\* with a mount of the session still below it
CleanupTables ==
    { {[at |-> MNT, dev |-> "location"]},
      {[at |-> MNT, dev |-> "location"], [at |-> MNT \o DEV, dev |-> "udev"]} }

\* The target root as lines 419 - 427 leave it
StagedTarget == [staged |-> Staged, resolv |-> "host", save |-> "image"]

\* lines 512 - 520 of configuration_procedure, reached when de_chroot has
\* returned
InitCleanup ==
    /\ entry = "cleanup"
    /\ pc = "cleanup"
    /\ path_dir = MNT
    /\ mounted \in CleanupTables
    /\ host_efi = FALSE
    /\ nested_efi = FALSE
    /\ settings = FullRecord
    /\ processes_to_do = <<>>
    /\ InitBootIdle

InitCpStaged ==
    /\ img_mounted = TRUE
    /\ target_fs = StagedTarget

Init ==
    /\ exc = "none"
    /\ InitSession
    /\ InitOrch
    /\ \/ InitChrootSession
       \/ InitMainInstallation
       \/ InitConfigurationProcedure
       \/ InitInstallBootloader
       \/ InitCheckSystemdBoot
       \/ InitDefaultingPass
       \/ InitUnmount
       \/ InitSetupLowlevelCall
       \/ InitCleanup
       \/ InitSetupLowlevel
    /\ IF entry = "cleanup" THEN InitCpStaged ELSE InitCp
    /\ InitBoot
    /\ settings_in = settings

Next ==
    \/ ArchOpen
    \/ ArchMount
    \/ ArchChdir
    \/ ArchSwitch
    \/ SessionWork
    \/ DeChrootEnter
    \/ UnmountCall
    \/ DeUnmount
    \/ DeFchdir
    \/ DeSwitch
    \/ DeClose
    \/ OrchLaunch
    \/ OrchPercent
    \/ OrchWhile
    \/ OrchPoll
    \/ HelperStart
    \/ HelperExit
    \/ OrchJoin
    \/ Install
    \/ InstallSetupLowlevel
    \/ SetupLowlevel
    \/ SetPlymouthThemeInstall
    \/ SetPlymouthThemeConfig
    \/ SetupLowlevelMkinitramfs
    \/ SetupLowlevelLinks
    \/ CpMount
    \/ CpStage
    \/ CpDefaults
    \/ CpChdir
    \/ CpUpdate19
    \/ CpCleanup
    \/ InstallBootloader
    \/ InstallBootloaderPackage
    \/ GrubParentDisk
    \/ GrubMkdevicemap
    \/ GrubInstall
    \/ GrubMkconfig
    \/ SdMkdirs
    \/ SdBootctl
    \/ SdManual
    \/ SdLoaderConf
    \/ SdChattr
    \/ SdConfig
    \/ SdHook
    \/ CsbUuid
    \/ CsbPrimary
    \/ CsbRecovery
    \/ CsbSync
    \/ RunAgain

Spec == Init /\ [][Next]_vars
-----------------------------------------------------------------------------
(* Claims about the chroot session *)

RECURSIVE Reverse(_)
Reverse(q) == IF q = <<>> THEN <<>> ELSE Append(Reverse(Tail(q)), Head(q))

\* the mount point each command names, below the target path
RECURSIVE MountPoints(_)
MountPoints(log) ==
    IF log = <<>> THEN <<>>
    ELSE <<SubSeq(Head(log).path, Len(arch_dir) + 1, Len(Head(log).path))>>
         \o MountPoints(Tail(log))

\* one entry per __unmount__ call: its first, non-lazy command
RECURSIVE UnmountPoints(_)
UnmountPoints(log) ==
    IF log = <<>> THEN <<>>
    ELSE (IF Head(log).lazy THEN <<>>
          ELSE <<SubSeq(Head(log).path, Len(path_dir) + 1, Len(Head(log).path))>>)
         \o UnmountPoints(Tail(log))

\* de_chroot has issued its last unmount
UnmountsIssued == de_calls = 1 /\ pc \in {"de_fchdir", "de_switch", "de_close", "done"}

\* C1: once de_chroot has made its unmount attempts, their sequence is the
\* reverse of the sequence of mount attempts arch_chroot made in the session.
C1_ReverseOrder ==
    UnmountsIssued => UnmountPoints(umount_log) = Reverse(MountPoints(mount_log))

\* C2: when the work between arch_chroot and de_chroot in
\* configuration_procedure has raised and the procedure is over, de_chroot has
\* run exactly once, the process root and working directory are the real root
\* again, and the handle is closed.
C2_TeardownOnRaise ==
    (entry = "configuration_procedure" /\ pc = "raised" /\ real_root # "none")
        => (de_calls = 1 /\ root = ROOT_DIR /\ cwd = ROOT_DIR /\ real_root = "closed")

\* C3: after de_chroot has returned normally, no pseudo-filesystem that
\* arch_chroot mounted is still mounted (the umount tool succeeds on every
\* path that is a mount point, see UmountSucceeds and LazySucceeds).
C3_NothingLeftMounted ==
    (entry = "chroot_session" /\ pc = "done") => mounted = {}

-----------------------------------------------------------------------------
(* Claims about the step orchestrator *)

\* the actions the orchestrator was given
Given == {joined[n] : n \in 1..Len(joined)}
            \cup {processes_to_do[n] : n \in 1..Len(processes_to_do)}

\* the orchestrator, called on its own, has returned or raised
OrchOver == entry = "MainInstallation" /\ pc \in {"done", "raised"}

HasFields(a) == \A j \in 1..Len(ActionArgs[a]) : ActionArgs[a][j] \in DOMAIN settings

Is100(v) == v = Pct(100)

\* a <= b for digit sequences of one length
RECURSIVE BitsLeq(_, _)
BitsLeq(a, b) ==
    \/ a = <<>>
    \/ a[1] < b[1]
    \/ a[1] = b[1] /\ BitsLeq(Tail(a), Tail(b))

\* a <= b for numbers of the progress line
PctLeq(a, b) == BitsLeq(Aligned(a, b).a, Aligned(a, b).b)

Count100(seq) == Cardinality({n \in 1..Len(seq) : Is100(seq[n])})

LastJoined == joined # <<>> /\ processes_to_do = <<>>

\* C4: the percentages the orchestrator reports never decrease, 100 is
\* reported at most once, and it has been reported exactly when the last of
\* the N >= 1 actions has been joined.
C4_ProgressTo100 ==
    entry = "MainInstallation" =>
        /\ \A n \in 1..(Len(progress) - 1) : PctLeq(progress[n], progress[n + 1])
        /\ Count100(progress) <= 1
        /\ LastJoined <=> Count100(progress) = 1

\* C5: a run of the orchestrator in which every action was launched ends by
\* returning normally, with every action joined exactly once and the pending
\* list empty.
C5_ReturnsWithAllJoined ==
    (OrchOver /\ Given # {} /\ \A a \in Given : procs[a] # "unstarted")
        => /\ pc = "done"
           /\ processes_to_do = <<>>
           /\ \A a \in Given : Cardinality({n \in 1..Len(joined) : joined[n] = a}) = 1

\* C6: when the record lacks a field of some action, every other action
\* whose fields are all present has still been launched and joined by the
\* time the orchestrator is over.
C6_MissingFieldIsolated ==
    (OrchOver /\ \E a \in Given : ~ HasFields(a))
        => \A b \in Given : HasFields(b) =>
              (procs[b] # "unstarted" /\ \E n \in 1..Len(joined) : joined[n] = b)

\* C7: when an action has failed (its process exited with a non-zero
\* status), the orchestrator still ends by returning, with every sibling
\* joined.
C7_FailureIsolated ==
    (OrchOver /\ (\A a \in Given : HasFields(a)) /\ \E a \in Given : procs[a] = "exit1")
        => /\ pc = "done"
           /\ \A b \in Given : \E n \in 1..Len(joined) : joined[n] = b

\* C8: when the orchestrator is over, what it hands to its caller records for
\* every action it joined whether that action succeeded or failed.
C8_ReportPerAction ==
    OrchOver =>
        \A n \in 1..Len(joined) :
            /\ joined[n] \in DOMAIN report
            /\ report[joined[n]] = procs[joined[n]]
-----------------------------------------------------------------------------
(* Claims about the bootloader installer *)

EntryFiles == {F_primary, F_recovery}

\* C9: the disk _install_grub hands to grub-install is /dev/sda for the root
\* device /dev/sda3 and /dev/nvme0n1 for the root device /dev/nvme0n1p2.
C9_ParentDisk ==
    \A n \in 1..Len(tool_log) :
        tool_log[n].cmd = "grub-install" =>
            /\ root_dev = DEV_SDA3 => tool_log[n].arg = DEV_SDA
            /\ root_dev = DEV_NVME0N1P2 => tool_log[n].arg = DEV_NVME0N1

\* grub-install has been run for the root device /dev/nvme0n1p2
C9_Witness ==
    /\ root_dev = DEV_NVME0N1P2
    /\ \E n \in 1..Len(tool_log) : tool_log[n].cmd = "grub-install"

\* C10: an entry file that is there when a run of check_systemd_boot starts
\* keeps its content throughout that run, and once a second run on the same
\* target root is over both entry files are as the first run left them.
C10_EntriesIdempotent ==
    /\ \A f \in EntryFiles :
          PathExists(run_start, f) =>
              PathExists(boot_files, f) /\ boot_files[f] = run_start[f]
    /\ (entry = "check_systemd_boot" /\ runs >= 2 /\ pc \in {"done", "raised"})
          => \A f \in EntryFiles :
                /\ PathExists(boot_files, f) <=> PathExists(first_end, f)
                /\ PathExists(boot_files, f) => boot_files[f] = first_end[f]

\* a second run of check_systemd_boot has completed on a target root where
\* the first run wrote the primary entry and found the recovery entry in place
C10_Witness ==
    /\ entry = "check_systemd_boot"
    /\ runs = 2
    /\ pc = "done"
    /\ PathExists(boot_files, F_primary)
    /\ boot_files[F_primary] = EntryText("Drauger OS", PySliceTo(part_uuid, -1), root_flags)
    /\ PathExists(boot_files, F_recovery)
    /\ boot_files[F_recovery] = ForeignEntry

\* the four kernel artifacts in the directory systemd-boot reads
ArtifactFiles == {F_vmlinuz, F_config, F_initrd, F_sysmap}

\* C11: whenever check_systemd_boot copies a kernel image out of a boot
\* directory that holds vmlinuz-5.4.0-3 and vmlinuz-5.10.0-9, the image it
\* has selected is vmlinuz-5.10.0-9.
C11_SelectsNewestKernel ==
    \A n \in 1..Len(copy_log) :
        (copy_log[n].dst = F_vmlinuz /\ {B_vmlinuz_54, B_vmlinuz_510} \subseteq boot_list)
            => copy_log[n].src = B_vmlinuz_510

\* C12: a kernel artifact that is in /boot/efi/Drauger_OS when a run of
\* check_systemd_boot starts keeps its content throughout the run, no
\* destination is ever copied to twice, and a run that follows a run which
\* left an artifact in place makes no copy to it.
C12_CopyOnlyIfAbsent ==
    /\ \A f \in ArtifactFiles :
          PathExists(run_start, f) =>
              PathExists(boot_files, f) /\ boot_files[f] = run_start[f]
    /\ \A m, n \in 1..Len(copy_log) : m # n => copy_log[m].dst # copy_log[n].dst
    /\ \A n \in 1..Len(copy_log) :
          copy_log[n].run >= 2 => ~ PathExists(first_end, copy_log[n].dst)

\* a second run of check_systemd_boot is over on a target root where the
\* first run found a kernel image in place and copied the other three
\* artifacts
C12_Witness ==
    /\ entry = "check_systemd_boot"
    /\ runs = 2
    /\ pc = "done"
    /\ boot_files[F_vmlinuz] = ForeignEntry
    /\ Len(copy_log) = 3
    /\ \A n \in 1..Len(copy_log) : copy_log[n].run = 1

-----------------------------------------------------------------------------
(* Claims about the settings defaulting pass *)

\* the defaulting pass has run to its end
PassDone ==
    /\ entry \in {"defaulting_pass", "configuration_procedure"}
    /\ \E n \in 1..Len(progress) : progress[n] = Pct(14)

\* the defaulting pass has raised
PassRaised ==
    /\ entry \in {"defaulting_pass", "configuration_procedure"}
    /\ pc = "raised"
    /\ real_root = "none"
    /\ entry = "configuration_procedure" => target_fs.save = "image"

\* C13: after the pass a COMPUTER_NAME that was absent, "" or None is
\* 'drauger-system-installed', and every field that was populated is as it
\* was supplied.
C13_HostnameDefaultPopulatedKept ==
    /\ PassDone =>
          (Unset(settings_in, "COMPUTER_NAME")
              => settings["COMPUTER_NAME"] = DEFAULT_HOSTNAME)
    /\ \A f \in DOMAIN settings_in :
          ~ Unset(settings_in, f) => (f \in DOMAIN settings /\ settings[f] = settings_in[f])

\* the pass is over for a record that had no COMPUTER_NAME and a populated
\* LANG and keyboard
C13_Witness ==
    /\ entry = "defaulting_pass"
    /\ pc = "done"
    /\ "COMPUTER_NAME" \notin DOMAIN settings_in
    /\ settings["COMPUTER_NAME"] = DEFAULT_HOSTNAME
    /\ settings_in["LANG"] = STR_C
    /\ settings["LANG"] = STR_C
    /\ settings["LAYOUT"] = STR_de

\* the field f is after the pass what it was before
Untouched(f) ==
    IF f \in DOMAIN settings_in
    THEN f \in DOMAIN settings /\ settings[f] = settings_in[f]
    ELSE f \notin DOMAIN settings

\* C14: after the pass, a layout or variant that was missing or empty is
\* 'English (US)' when the keyboard model is something other than the
\* no-configuration value, and is untouched when the model is (or has
\* defaulted to) the no-configuration value.
C14_KeyboardDefaultOnlyWhenConfigured ==
    PassDone =>
        \A f \in {"LAYOUT", "VARIENT"} :
            Unset(settings_in, f) =>
                IF settings["MODEL"] = NO_KEYBOARD
                THEN Untouched(f)
                ELSE settings[f] = ENGLISH_US

\* C15: the pass never raises, whatever the record and the host environment.
C15_PassNeverFails == ~ PassRaised

\* the settings fields that are a parameter of some action
ConsumedFields ==
    UNION {{ActionArgs[a][j] : j \in 1..Len(ActionArgs[a])} : a \in Actions}

\* C16: when configuration_procedure starts the orchestrator, every field
\* that is a parameter of some action is in the record and is neither "" nor
\* None.
C16_FieldsReadyAtOrchestrator ==
    (entry = "configuration_procedure" /\ pc = "orch_launch" /\ launch_i = 1)
        => \A f \in ConsumedFields : ~ Unset(settings, f)

-----------------------------------------------------------------------------
(* Claims about failures *)

\* the identifier selects none of the three strategies
Unknown(b) == b # SYSTEMD_BOOT /\ ~ Contains(GRUB, b) /\ b \notin UBoots

\* C17: install_bootloader called with an identifier that selects no
\* strategy ends by raising UnsupportedBootloaderError, having run no tool.
C17_UnknownBootloaderFails ==
    (entry = "install_bootloader" /\ pc \in {"done", "raised"} /\ Unknown(bootloader))
        => (pc = "raised" /\ exc = "UnsupportedBootloaderError" /\ tool_log = <<>>)

\* C18: when de_chroot has returned and one of its unmounts failed both as a
\* normal and as a lazy unmount, what it returned to its caller is
\* 'teardown incomplete'.
C18_TeardownIncompleteReported ==
    (entry = "chroot_session" /\ pc = "done"
       /\ \E n \in 1..Len(umount_log) : umount_log[n].lazy /\ ~ umount_log[n].ok)
        => de_result = "teardown incomplete"

\* an entry file that was not there when the current run started and that
\* cannot be written
WriteFails(f) ==
    ~ PathExists(run_start, f) /\ (f \in unwritable \/ DirOf(f) \notin boot_dirs)

\* C19: check_systemd_boot never gets past the primary entry without that
\* entry in place: when it cannot be written the stage ends with IOError,
\* and IOError has no other cause.  When the recovery entry cannot be written
\* the stage is at the kernel-artifact synchronisation with a warning issued
\* and no error.
C19_PrimaryFatalRecoveryWarns ==
    /\ WriteFails(F_primary) =>
          /\ pc \notin {"csb_recovery", "csb_sync"}
          /\ ~ (pc = "done" /\ bootloader = SYSTEMD_BOOT)
    /\ exc = "IOError" => (pc = "raised" /\ WriteFails(F_primary))
    /\ (pc = "csb_sync" /\ WriteFails(F_recovery)) =>
          /\ exc = "none"
          /\ warned # <<>>
          /\ warned[Len(warned)] = "Cannot make recovery systemd-boot entry config file"

\* check_systemd_boot has returned on a target root where the recovery entry
\* could not be written: the warning was issued, the primary entry was written
\* and the kernel artifacts were copied
C19_Witness ==
    /\ entry = "check_systemd_boot"
    /\ pc = "done"
    /\ runs = 1
    /\ WriteFails(F_recovery)
    /\ warned # <<>>
    /\ PathExists(boot_files, F_primary)
    /\ Len(copy_log) = 4

\* check_systemd_boot has ended with IOError on a target root where the
\* primary entry could not be written, without a warning and without a copy
C19_WitnessPrimary ==
    /\ entry = "check_systemd_boot"
    /\ pc = "raised"
    /\ exc = "IOError"
    /\ WriteFails(F_primary)
    /\ warned = <<>>
    /\ copy_log = <<>>

\* C20: _install_systemd_boot does not end with the error of a failed write
\* of loader.conf; when loader.conf could not be written it goes on to
\* check_systemd_boot with a warning issued.
C20_LoaderConfNonFatal ==
    (entry = "install_bootloader" /\ bootloader = SYSTEMD_BOOT
       /\ F_loader_conf \in unwritable)
        => /\ ~ (pc = "raised" /\ exc = "PermissionError")
           /\ pc \in {"sd_chattr", "sd_config", "sd_hook", "check_systemd_boot"}
                => warned # <<>>

-----------------------------------------------------------------------------
(* Ordering of the stages, the chroot session and the bootloader steps *)

\* The record handed to install() lacks a key that line 404 subscripts
LacksLowlevelKey == \E key \in {"EFI", "ROOT"} : key \notin DOMAIN settings

\* Every action of the run has been joined
AllJoined == \A a \in Actions : \E n \in 1..Len(joined) : joined[n] = a

\* C21: in an installation run the bootloader stage runs once every
\* configuration action has been joined, and before the chroot session
\* exits, for the record setup() produces: the call of line 404 made with
\* that record goes into the stage instead of raising, and a run that has
\* launched its actions inside the chroot does not stop before all of them
\* are joined and the bootloader tools have been run.
C21_BootloaderStageAfterJoins ==
    /\ (entry = "setup_lowlevel_call" /\ LacksLowlevelKey) => pc # "raised"
    /\ (entry = "configuration_procedure" /\ pc \in {"raised", "cleanup", "done"}
          /\ Launched = Actions)
        => (AllJoined /\ tool_log # <<>>)

\* The order of arch_chroot's mount calls, with the place of each under the
\* target
MountOrder == <<
    <<"proc", PROC>>, <<"sys", SYS>>, <<"efivars", EFIVARS>>, <<"udev", DEV>>,
    <<"devpts", DEV_PTS>>, <<"shm", DEV_SHM>>, <<"/run", RUN>>, <<"tmp", TMP>> >>

MountOrderNoEfivars == SelectSeq(MountOrder, LAMBDA e : e[1] # "efivars")

\* The mount attempts made so far, as pairs of device and place under the target
Attempted ==
    [n \in 1..Len(mount_log) |->
        <<mount_log[n].dev,
          SubSeq(mount_log[n].path, Len(arch_dir) + 1, Len(mount_log[n].path))>>]

MountsComplete == Attempted \in {MountOrder, MountOrderNoEfivars}

\* C22: arch_chroot attempts the mounts in the order proc, sysfs, efivars
\* (when present), dev, devpts, shm, run, tmp, each under the target; it
\* then changes directory to the target and then switches root.  A failed
\* mount stops nothing: once the mounts are over every entry has been
\* attempted whatever the exit statuses, and arch_chroot raises only when
\* the chdir finds no directory.
C22_MountOrderFailuresSwallowed ==
    /\ IsPrefix(Attempted, MountOrder) \/ IsPrefix(Attempted, MountOrderNoEfivars)
    /\ \A n \in 1..Len(mount_log) : IsPrefix(arch_dir, mount_log[n].path)
    /\ (real_root # "none" /\ pc # "arch_mount") => MountsComplete
    /\ pc = "arch_switch"
        => (cwd = Resolve(ROOT_DIR, arch_dir) /\ root = ROOT_DIR)
    /\ pc \in {"work", "update_19"}
        => (root = Resolve(ROOT_DIR, arch_dir) /\ cwd = root)
    /\ (entry = "chroot_session" /\ pc = "raised")
        => (exc = "FileNotFoundError" /\ ~ IsDir(Resolve(ROOT_DIR, arch_dir)))

\* arch_chroot has switched root to /mnt after eight mount attempts of which
\* the first failed and the last succeeded
C22_Witness ==
    /\ entry = "chroot_session"
    /\ pc = "work"
    /\ root = MNT
    /\ Len(mount_log) = 8
    /\ ~ mount_log[1].ok
    /\ mount_log[8].ok

\* Number of first attempts (umount without -l) made so far
FirstAttempts == Cardinality({n \in 1..Len(umount_log) : ~ umount_log[n].lazy})

\* C23: every lazy unmount directly follows a failed normal unmount of the
\* same path, every failed normal unmount is directly followed by one lazy
\* unmount and by no second one, and a normal unmount that succeeded is not
\* followed by a lazy one; __unmount__ and de_chroot never raise, so a
\* de_chroot that is over has made all seven or eight unmount calls and has
\* restored the root.
C23_LazyOnlyAfterFailureNeverRaises ==
    /\ \A n \in 1..Len(umount_log) :
          /\ umount_log[n].lazy
              => /\ n > 1
                 /\ ~ umount_log[n - 1].lazy
                 /\ ~ umount_log[n - 1].ok
                 /\ umount_log[n - 1].path = umount_log[n].path
          /\ (~ umount_log[n].lazy /\ ~ umount_log[n].ok)
              => (n < Len(umount_log) /\ umount_log[n + 1].lazy)
          /\ (~ umount_log[n].lazy /\ umount_log[n].ok /\ n < Len(umount_log))
              => ~ umount_log[n + 1].lazy
    /\ entry = "__unmount__" => pc # "raised"
    /\ (entry = "chroot_session" /\ de_calls > 0) => pc # "raised"
    /\ (entry = "chroot_session" /\ pc = "done")
        => (FirstAttempts \in {7, 8} /\ root = ROOT_DIR /\ cwd = ROOT_DIR)

\* de_chroot is over with the root restored although a normal unmount and
\* the lazy unmount after it both failed
C23_Witness ==
    /\ entry = "chroot_session"
    /\ pc = "done"
    /\ root = ROOT_DIR
    /\ \E n \in 1..Len(umount_log) : umount_log[n].lazy /\ ~ umount_log[n].ok

\* __unmount__ called by itself has returned after a failed normal unmount
\* and a lazy unmount that succeeded
C23_WitnessLazy ==
    /\ entry = "__unmount__"
    /\ pc = "done"
    /\ Len(umount_log) = 2
    /\ umount_log[2].lazy
    /\ umount_log[2].ok

\* __unmount__ called by itself has returned after a normal unmount that
\* succeeded, without a lazy one
C23_WitnessNormal ==
    /\ entry = "__unmount__"
    /\ pc = "done"
    /\ Len(umount_log) = 1
    /\ umount_log[1].ok

\* C24: while the handle of the real root is not open yet no mount has been
\* attempted and the root (and, in a session that starts at /, the working
\* directory) is the original one; de_chroot's root switch is made from the
\* directory the handle refers to, with the handle open; the handle is
\* closed only with the original root restored.
C24_HandleOpenedFirstClosedLast ==
    /\ real_root = "none"
        => /\ mount_log = <<>>
           /\ root = ROOT_DIR
           /\ entry = "chroot_session" => cwd = ROOT_DIR
    /\ pc = "de_switch" => (real_root = "open" /\ cwd = ROOT_DIR)
    /\ pc = "de_close" => (real_root = "open" /\ root = ROOT_DIR)
    /\ real_root = "closed" => (root = ROOT_DIR /\ cwd = ROOT_DIR)

\* A session that had switched root to /mnt is over: the handle is closed
\* and the root is the original one
C24_Witness ==
    /\ entry = "chroot_session"
    /\ pc = "done"
    /\ real_root = "closed"
    /\ root = ROOT_DIR
    /\ arch_dir = MNT
    /\ Len(mount_log) \in {7, 8}

EfivarsMountAttempted == \E n \in 1..Len(mount_log) : mount_log[n].dev = "efivars"

EfivarsUnmountAttempted ==
    \E n \in 1..Len(umount_log) : umount_log[n].path = path_dir \o EFIVARS

\* C25: in a chroot session whose unmount calls are over, the efivars
\* unmount was attempted if and only if the efivars mount was attempted.
C25_EfivarsTornDownIffMounted ==
    (entry = "chroot_session" /\ pc \in {"de_fchdir", "de_switch", "de_close", "done"})
        => (EfivarsUnmountAttempted <=> EfivarsMountAttempted)

\* C26: in configuration_procedure no action is launched or joined and no
\* bootloader tool is run unless arch_chroot has switched the root to the
\* target with the handle open; a run that raised with the root never
\* switched has launched nothing; what was staged in the target stays as it
\* is while the session is open, and the cleanup is reached only with the
\* original root restored and the handle closed.
C26_SessionEnclosesTheWork ==
    /\ (entry = "configuration_procedure"
          /\ (Launched # {} \/ joined # <<>> \/ tool_log # <<>>))
        => (root = MNT /\ real_root = "open" /\ MountsComplete)
    /\ (entry \in {"configuration_procedure", "chroot_session"}
          /\ pc = "raised" /\ root = ROOT_DIR /\ de_calls = 0)
        => Launched = {}
    /\ (entry = "configuration_procedure" /\ real_root = "open")
        => (img_mounted
            /\ target_fs = [staged |-> Staged, resolv |-> "host", save |-> "image"])
    /\ (entry = "configuration_procedure" /\ pc = "cleanup")
        => (root = ROOT_DIR /\ real_root = "closed")

\* configuration_procedure has launched all nine actions, with the root
\* switched to /mnt and the staged files in place
C26_Witness ==
    /\ entry = "configuration_procedure"
    /\ Launched = Actions
    /\ root = MNT
    /\ real_root = "open"
    /\ target_fs.staged = Staged

\* The external steps of the grub-family path, in order
GrubSteps == <<"apt install", "grub-mkdevicemap", "grub-install", "grub-mkconfig">>

StepIndex(cmd) == CHOOSE i \in 1..Len(GrubSteps) : GrubSteps[i] = cmd

\* C27: in the grub-family path each run's steps are package install,
\* device-map generation, grub-install on the parent disk and config
\* generation, in that order; after a step that exited non-zero the run has
\* raised and no later step of it is in the log (the next entry, if there
\* is one, is the package install of a new run).
C27_GrubStepsInOrderFailureStops ==
    (entry = "install_bootloader" /\ Contains(GRUB, bootloader))
        => /\ \A n \in 1..Len(tool_log) :
                 /\ \E i \in 1..Len(GrubSteps) : GrubSteps[i] = tool_log[n].cmd
                 /\ tool_log[n].cmd = "grub-install"
                     => tool_log[n].arg = ParentDisk(root_dev)
                 /\ n < Len(tool_log)
                     => tool_log[n + 1].cmd =
                           IF tool_log[n].ok /\ StepIndex(tool_log[n].cmd) < Len(GrubSteps)
                           THEN GrubSteps[StepIndex(tool_log[n].cmd) + 1]
                           ELSE GrubSteps[1]
           /\ tool_log # <<>> => tool_log[1].cmd = GrubSteps[1]
           /\ Cardinality({n \in 1..Len(tool_log) : tool_log[n].cmd = GrubSteps[1]})
                 <= runs
           /\ (tool_log # <<>> /\ ~ tool_log[Len(tool_log)].ok)
                 => \/ pc = "raised" /\ exc = "CalledProcessError"
                    \/ pc \in {"install_bootloader", "apt_install"}
                         /\ Cardinality({n \in 1..Len(tool_log) :
                                           tool_log[n].cmd = GrubSteps[1]}) < runs

\* The first run of the grub path has raised at a failing grub-install,
\* after the package install and the device map
C27_Witness ==
    /\ entry = "install_bootloader"
    /\ Contains(GRUB, bootloader)
    /\ runs = 1
    /\ pc = "raised"
    /\ Len(tool_log) = 3
    /\ tool_log[3].cmd = "grub-install"
    /\ ~ tool_log[3].ok

\* The first run of the grub path is over with all four steps run
C27_WitnessAll ==
    /\ entry = "install_bootloader"
    /\ Contains(GRUB, bootloader)
    /\ runs = 1
    /\ pc = "done"
    /\ Len(tool_log) = 4

\* /boot holds a file of each of the four kinds
AllKindsListed ==
    \A kind \in {K_vmlinuz, K_config, K_initrd, K_sysmap} :
        \E name \in boot_list : Contains(kind, name)

\* C28: with no file of some kind in /boot, check_systemd_boot does not
\* complete and copies nothing; it ends with the IndexError of the empty
\* list, which it raises in no other case.
C28_MissingKindFailsCopiesNothing ==
    /\ (bootloader = SYSTEMD_BOOT /\ ~ AllKindsListed
          /\ entry \in {"check_systemd_boot", "install_bootloader"})
        => (pc # "done" /\ copy_log = <<>>)
    /\ (entry = "check_systemd_boot" /\ exc = "IndexError") => ~ AllKindsListed

\* check_systemd_boot has raised IndexError on a /boot with kernels but no
\* System.map, after writing the primary entry and without a copy
C28_Witness ==
    /\ entry = "check_systemd_boot"
    /\ pc = "raised"
    /\ exc = "IndexError"
    /\ \E name \in boot_list : Contains(K_vmlinuz, name)
    /\ ~ \E name \in boot_list : Contains(K_sysmap, name)
    /\ PathExists(boot_files, F_primary)
    /\ copy_log = <<>>

\* The values configuration_procedure itself writes to the progress line
FixedProgress == <<Pct(2), Pct(6), Pct(7), Pct(8), Pct(14), Pct(19)>>

\* C29: over a run of configuration_procedure no value written to the
\* progress line is smaller than the one written before it.
C29_ProgressNeverDecreases ==
    entry = "configuration_procedure"
        => \A n \in 1..(Len(progress) - 1) : PctLeq(progress[n], progress[n + 1])

\* The procedure has written its six values, all nine actions were launched
\* and the orchestrator has joined one
C29_Witness ==
    /\ entry = "configuration_procedure"
    /\ progress = FixedProgress
    /\ Launched = Actions
    /\ joined # <<>>

\* C30: the helper started by an action that has been joined is not running
\* any more.
C30_JoinedActionsHelpersFinished ==
    \A n \in 1..Len(joined) :
        joined[n] \in DOMAIN HelperOf => helpers[HelperOf[joined[n]]] # "running"

-----------------------------------------------------------------------------
(* Path normalisation, the parent disk, reruns and the cleanup *)

\* A path without its trailing separator
WithoutTrailingSeparator(p) ==
    IF Len(p) > 1 /\ p[Len(p)] = "/" THEN SubSeq(p, 1, Len(p) - 1) ELSE p

\* C31: arch_chroot works on the target path without its trailing "/": that
\* is the directory every mount is made under and the directory the root is
\* switched to, whether the path was given with the "/" or without.
C31_TrailingSlashSameTarget ==
    (entry = "chroot_session" /\ real_root # "none")
        => /\ arch_dir = WithoutTrailingSeparator(path_dir)
           /\ \A n \in 1..Len(mount_log) :
                 IsPrefix(WithoutTrailingSeparator(path_dir) \o <<"/">>,
                          mount_log[n].path)
           /\ pc = "work" => root = WithoutTrailingSeparator(path_dir)

DEV_SDP == <<"/", "d", "e", "v", "/", "s", "d", "p">>

\* The whole disk each root device of the runs is a partition of
DiskOf(r) ==
    CASE r = DEV_SDA3 -> DEV_SDA
      [] r = DEV_SDA12 -> DEV_SDA
      [] r = DEV_NVME0N1P2 -> DEV_NVME0N1
      [] r = DEV_SDP1 -> DEV_SDP

\* C32: grub-install is handed the whole disk the root device is a partition
\* of, for /dev/sda3, /dev/sda12, /dev/nvme0n1p2 and /dev/sdp1 (partition 1
\* of the disk /dev/sdp).
C32_GrubInstallOnWholeDisk ==
    \A n \in 1..Len(tool_log) :
        tool_log[n].cmd = "grub-install" => tool_log[n].arg = DiskOf(root_dev)

\* A run of the systemd-boot installation on this target root went through
\* to its end: only then has an artifact been copied, /boot/efi/Drauger_OS
\* being empty before
EarlierRunSucceeded ==
    /\ entry = "install_bootloader"
    /\ bootloader = SYSTEMD_BOOT
    /\ runs >= 2
    /\ copy_log # <<>>

\* C33: a run of the systemd-boot installation that follows a successful one
\* on the same target root does not end with the error of creating a
\* directory that exists.
C33_RerunToleratesDirectories ==
    EarlierRunSucceeded => ~ (pc = "raised" /\ exc = "FileExistsError")

\* The target root as it was before the run
TargetRestored == target_fs = [staged |-> {}, resolv |-> "image", save |-> "absent"]

\* Lines 512 - 520 on their own leave nothing staged and the image's
\* resolv.conf back in place
CleanupRestores == (entry = "cleanup" /\ pc = "done") => TargetRestored

\* Lines 512 - 520 are over on a target that held the staged files
CleanupRestores_Witness ==
    /\ entry = "cleanup"
    /\ pc = "done"
    /\ TargetRestored
    /\ ~ img_mounted
    /\ umount_log # <<>>

\* C34: a run of configuration_procedure that staged its helper files and
\* is over has left no staged file in the target root and has the image's
\* resolv.conf back in place, with no saved copy left.
C34_TargetLeftAsItWas ==
    /\ CleanupRestores
    /\ (entry = "configuration_procedure" /\ pc \in {"raised", "done"}
          /\ real_root # "none")
        => TargetRestored
====
